---- MODULE Spec2Model ----
(***************************************************************************)
(* A model of the digital search trie of transientvariable/coll (package   *)
(* trie): the node tree, the doubly linked overlay list of leaves, the     *)
(* search context and the public operations of the Trie.                   *)
(*                                                                         *)
(* Keys are Go strings, modelled as sequences of byte values (97 = 'a',    *)
(* 98 = 'b', 32 = ' ', 127 = DEL).  Objects live in a heap addressed by    *)
(* positive integers; 0 is the nil reference.  A child array is modelled   *)
(* sparsely: slot i of a node is nil exactly when i is not in the domain   *)
(* of its children function, and cap is the length of the array.           *)
(***************************************************************************)
EXTENDS Integers, Sequences, FiniteSets, TLC

(***************************************************************************)
(* Bounds of the model.                                                    *)
(***************************************************************************)
MaxLen == 2
MaxSize == 4
MaxBatch == 2

Nil == 0

NoErr == "nil"
ErrNotFound == "ErrNotFound"
ErrCollectionEmpty == "ErrCollectionEmpty"
ErrValueRequired == "ErrValueRequired"
ErrPrefixViolation == "entry violates prefix-free requirement"
ErrUnsupportedCharacter == "character for node is unsupported"
ErrPlaceTooLarge == "requested place is greater than the supported alphabet size"
ErrIndexOutOfBounds == "index out of bounds"
ErrChildExists == "child exists at index"

(***************************************************************************)
(* Helpers over sets and sequences.                                        *)
(***************************************************************************)
SetMax(S) == CHOOSE x \in S : \A y \in S : y <= x
SetMin(S) == CHOOSE x \in S : \A y \in S : x <= y

RECURSIVE SortedSeq(_)
SortedSeq(S) == IF S = {} THEN << >>
                ELSE LET m == SetMin(S) IN << m >> \o SortedSeq(S \ {m})

Range(s) == { s[i] : i \in DOMAIN s }

(***************************************************************************)
(* strings.TrimSpace on ASCII: strips leading and trailing white space.    *)
(***************************************************************************)
IsSpace(c) == c \in {9, 10, 11, 12, 13, 32}

RECURSIVE TrimLeft(_)
TrimLeft(s) == IF s # << >> /\ IsSpace(Head(s)) THEN TrimLeft(Tail(s)) ELSE s

RECURSIVE TrimRight(_)
TrimRight(s) == IF s # << >> /\ IsSpace(s[Len(s)])
                THEN TrimRight(SubSeq(s, 1, Len(s) - 1)) ELSE s

TrimSpace(s) == TrimRight(TrimLeft(s))

(***************************************************************************)
(* Digitizers.  digitizer is the digitizer field of the trie, set by New   *)
(* and never assigned again; option is the digitizer New was given (nil    *)
(* when it was given none).  A Digitizer is known by what its methods      *)
(* return: its base, whether it says it is prefix-free, and whether its    *)
(* NumDigitsOf counts a place for the end of the key.  Every digitizer     *)
(* here maps characters as the ASCII digitizer does.                       *)
(***************************************************************************)
VARIABLES digitizer, option

asciiTable == [r \in 32..126 |-> r - 31]

NewASCIIDigitizer ==
  [nil |-> FALSE, base |-> Cardinality(DOMAIN asciiTable) + 1,
   prefixFree |-> TRUE, endOfKey |-> TRUE]

\* the nil Digitizer: no digitizer given to New
NoDigitizer == [nil |-> TRUE, base |-> 0, prefixFree |-> FALSE, endOfKey |-> FALSE]

Base == digitizer.base

IsPrefixFree == digitizer.prefixFree

\* NumDigitsOf without the place of the end of the key
NumDigitsOfNoEnd(value) == Len(value)

NumDigitsOf(value) == IF digitizer.endOfKey THEN Len(value) + 1 ELSE Len(value)

\* place counts from 0 as in the source; a Go string index place is s[place + 1] here
DigitOf(value, place) ==
  LET v == TrimSpace(value) IN
  IF v = << >> \/ place >= Len(v) THEN [digit |-> 0, err |-> NoErr]
  ELSE IF place > Base THEN [digit |-> -1, err |-> ErrPlaceTooLarge]
  ELSE IF v[place + 1] \notin DOMAIN asciiTable
       THEN [digit |-> -1, err |-> ErrUnsupportedCharacter]
  ELSE [digit |-> asciiTable[v[place + 1]], err |-> NoErr]

(***************************************************************************)
(* Entries.                                                                *)
(***************************************************************************)
NilEntry == [nil |-> TRUE, value |-> << >>, data |-> "nil"]

NewEntry(value, data) == [nil |-> FALSE, value |-> value, data |-> data]

(***************************************************************************)
(* Nodes and leaves.  A leaf and the zero-capacity node it delegates to    *)
(* are one heap object.                                                    *)
(***************************************************************************)
newNode(capacity) ==
  [isLeaf |-> FALSE, cap |-> IF capacity <= 0 THEN 0 ELSE capacity,
   children |-> << >>, isRoot |-> FALSE, numChildren |-> 0, parent |-> Nil,
   value |-> NilEntry, next |-> Nil, previous |-> Nil,
   isHead |-> FALSE, isTail |-> FALSE]

newRootNode(capacity) == [newNode(capacity) EXCEPT !.cap = capacity, !.isRoot = TRUE]

newLeaf == [newNode(0) EXCEPT !.isLeaf = TRUE]

NewId(heap) == IF DOMAIN heap = {} THEN 1 ELSE SetMax(DOMAIN heap) + 1

\* node.checkBounds: index = len(children) passes the check
checkBounds(n, index) ==
  IF index < 0 \/ index > n.cap THEN ErrIndexOutOfBounds ELSE NoErr

\* node.ChildAt: indexing children[len(children)] faults
ChildAt(n, index) ==
  IF checkBounds(n, index) # NoErr
  THEN [node |-> Nil, err |-> ErrIndexOutOfBounds, panic |-> FALSE]
  ELSE IF index >= n.cap THEN [node |-> Nil, err |-> NoErr, panic |-> TRUE]
  ELSE [node |-> IF index \in DOMAIN n.children THEN n.children[index] ELSE Nil,
        err |-> NoErr, panic |-> FALSE]

HasChildren(n) == n.numChildren > 0

\* AddChild that leaves the parent reference of the child as it was
AddChildUnowned(heap, p, index, child) ==
  IF index < 0 \/ index >= heap[p].cap THEN [heap |-> heap, err |-> ErrIndexOutOfBounds]
  ELSE IF index \in DOMAIN heap[p].children THEN [heap |-> heap, err |-> ErrChildExists]
  ELSE [heap |-> [heap EXCEPT ![p].numChildren = @ + 1,
                              ![p].children = (index :> child) @@ @],
        err |-> NoErr]

\* node.AddChild on heap object p
AddChild(heap, p, index, child) ==
  IF index < 0 \/ index >= heap[p].cap THEN [heap |-> heap, err |-> ErrIndexOutOfBounds]
  ELSE IF index \in DOMAIN heap[p].children THEN [heap |-> heap, err |-> ErrChildExists]
  ELSE [heap |-> [heap EXCEPT ![p].numChildren = @ + 1,
                              ![p].children = (index :> child) @@ @,
                              ![child].parent = p],
        err |-> NoErr]

\* RemoveChildAt that empties the slot and leaves numChildren as it was
RemoveChildAtUncounted(heap, p, index) ==
  IF checkBounds(heap[p], index) # NoErr
  THEN [heap |-> heap, removed |-> FALSE, panic |-> FALSE]
  ELSE IF index >= heap[p].cap THEN [heap |-> heap, removed |-> FALSE, panic |-> TRUE]
  ELSE IF index \in DOMAIN heap[p].children
       THEN [heap |-> [heap EXCEPT ![p].children = [i \in (DOMAIN @) \ {index} |-> @[i]]],
             removed |-> TRUE, panic |-> FALSE]
  ELSE [heap |-> heap, removed |-> FALSE, panic |-> FALSE]

\* node.RemoveChildAt on heap object p, with what it returns; indexing
\* children[len(children)] faults
RemoveChildAtOf(heap, p, index) ==
  IF checkBounds(heap[p], index) # NoErr
  THEN [heap |-> heap, removed |-> FALSE, panic |-> FALSE]
  ELSE IF index >= heap[p].cap THEN [heap |-> heap, removed |-> FALSE, panic |-> TRUE]
  ELSE IF index \in DOMAIN heap[p].children
       THEN [heap |-> [heap EXCEPT ![p].children = [i \in (DOMAIN @) \ {index} |-> @[i]],
                                   ![p].numChildren = @ - 1],
             removed |-> TRUE, panic |-> FALSE]
  ELSE [heap |-> heap, removed |-> FALSE, panic |-> FALSE]

\* the heap after RemoveChildAt (callers in the trie pass an index below the
\* capacity)
RemoveChildAt(heap, p, index) == RemoveChildAtOf(heap, p, index).heap

IsDeleted(n) == n.previous = Nil

\* leaf.AddAfter: l is spliced after leafNode
AddAfter(heap, l, leafNode) ==
  LET h1 == [heap EXCEPT ![l].next = heap[leafNode].next]
      h2 == [h1 EXCEPT ![leafNode].next = l]
      h3 == [h2 EXCEPT ![l].previous = leafNode]
  IN [h3 EXCEPT ![h3[l].next].previous = l]

\* LeafRemove that leaves the previous link of the next leaf as it was
LeafRemoveKeepsBackLink(heap, l) ==
  LET h1 == [heap EXCEPT ![heap[l].previous].next = heap[l].next]
  IN [h1 EXCEPT ![l].previous = Nil]

\* leaf.Remove without markDeleted
LeafRemoveUnmarked(heap, l) ==
  LET h1 == [heap EXCEPT ![heap[l].previous].next = heap[l].next]
  IN [h1 EXCEPT ![h1[l].next].previous = h1[l].previous]

\* leaf.Remove followed by markDeleted
LeafRemove(heap, l) ==
  LET h1 == [heap EXCEPT ![heap[l].previous].next = heap[l].next]
      h2 == [h1 EXCEPT ![h1[l].next].previous = h1[l].previous]
  IN [h2 EXCEPT ![l].previous = Nil]

(***************************************************************************)
(* Let(e, F) is F applied to the value of e, evaluated once.               *)
(***************************************************************************)
Let(e, F(_)) == CHOOSE r \in { F(x) : x \in { e } } : TRUE

(***************************************************************************)
(* The search context.                                                     *)
(***************************************************************************)
Extension == 1
Greater == 2
Less == 3
Matched == 4
Prefix == 5
Unmatched == 6

childNotFound == -1

\* searchContextPool: the contexts that have been put back and not taken out
\* or dropped since
VARIABLES searchContextPool

\* what New of the pool makes: &searchContext{}
newSearchContext == [pointer |-> Nil, digitizer |-> Nil, branchPosition |-> 0]

\* releaseSearchContext that puts the context back as the call has left it
releaseSearchContextAsIs(ctx) ==
  [pointer |-> ctx.pointer, digitizer |-> Nil, branchPosition |-> ctx.branchPosition]

\* releaseSearchContext: the context as it is put back
releaseSearchContext(ctx) == [pointer |-> Nil, digitizer |-> Nil, branchPosition |-> 0]

\* a context as acquireSearchContext hands it out: released contexts are reset
acquireSearchContext == [pointer |-> Nil, branchPosition |-> 0]

\* ascend that moves to the parent and leaves branchPosition as it was
ascendUncounted(heap, ctx) ==
  [pointer |-> heap[ctx.pointer].parent, branchPosition |-> ctx.branchPosition]

ascend(heap, ctx) ==
  [pointer |-> heap[ctx.pointer].parent, branchPosition |-> ctx.branchPosition - 1]

atLeaf(heap, ctx) == ctx.pointer # Nil /\ heap[ctx.pointer].isLeaf

atRoot(heap, ctx) == heap[ctx.pointer].parent = Nil

\* descendToIndex that moves to the child and leaves branchPosition as it was
descendToIndexUncounted(heap, ctx, index) ==
  Let(ChildAt(heap[ctx.pointer], index), LAMBDA c :
    IF c.err # NoErr \/ c.node = Nil THEN [index |-> childNotFound, ctx |-> ctx]
    ELSE [index |-> index,
          ctx |-> [pointer |-> c.node, branchPosition |-> ctx.branchPosition]])

descendToIndex(heap, ctx, index) ==
  Let(ChildAt(heap[ctx.pointer], index), LAMBDA c :
    IF c.err # NoErr \/ c.node = Nil THEN [index |-> childNotFound, ctx |-> ctx]
    ELSE [index |-> index,
          ctx |-> [pointer |-> c.node, branchPosition |-> ctx.branchPosition + 1]])

descendTo(heap, ctx, value) ==
  Let(DigitOf(value, ctx.branchPosition), LAMBDA d :
    IF d.err # NoErr THEN [index |-> -1, ctx |-> ctx, err |-> d.err]
    ELSE Let(descendToIndex(heap, ctx, d.digit), LAMBDA r :
           [index |-> r.index, ctx |-> r.ctx, err |-> NoErr]))

\* the loop of moveToMaxDescendant; on a childless internal node the inner
\* loop counts its index down for ever
RECURSIVE moveToMaxDescendant(_, _)
moveToMaxDescendant(heap, ctx) ==
  IF atLeaf(heap, ctx) THEN [ctx |-> ctx, hang |-> FALSE]
  ELSE IF DOMAIN heap[ctx.pointer].children = {} THEN [ctx |-> ctx, hang |-> TRUE]
  ELSE Let(descendToIndex(heap, ctx, SetMax(DOMAIN heap[ctx.pointer].children)).ctx,
           LAMBDA c : moveToMaxDescendant(heap, c))

\* LeftForks with the inner loop stopping at i > 0: slot 0, the end of a key,
\* is never visited
LeftForksAboveZero(heap, ctx, digit) ==
  IF atLeaf(heap, ctx) THEN {}
  ELSE { i \in DOMAIN heap[ctx.pointer].children : i <= digit - 1 /\ i > 0 }

\* the slots the inner loop of retraceToLastLeftFork visits that hold a child
LeftForks(heap, ctx, digit) ==
  IF atLeaf(heap, ctx) THEN {}
  ELSE { i \in DOMAIN heap[ctx.pointer].children : i <= digit - 1 }

RECURSIVE retraceToLastLeftFork(_, _, _)
retraceToLastLeftFork(heap, ctx, value) ==
  Let(IF atLeaf(heap, ctx) THEN [digit |-> 0, err |-> NoErr]
      ELSE DigitOf(value, ctx.branchPosition), LAMBDA d :
    IF d.err # NoErr THEN [ctx |-> ctx, err |-> d.err]
    ELSE Let(LeftForks(heap, ctx, d.digit), LAMBDA left :
      IF left # {}
      THEN [ctx |-> descendToIndex(heap, ctx, SetMax(left)).ctx, err |-> NoErr]
      ELSE IF atRoot(heap, ctx) THEN [ctx |-> ctx, err |-> NoErr]
      ELSE Let(ascend(heap, ctx), LAMBDA up : retraceToLastLeftFork(heap, up, value))))

(***************************************************************************)
(* trie.find.  t is the trie object: [heap, root, head, tail, size].       *)
(***************************************************************************)
IsEmpty(t) == t.size = 0

prepareSearch(t, ctx) == [pointer |-> t.root, branchPosition |-> 0]

RECURSIVE findLoop(_, _, _, _)
findLoop(heap, ctx, value, numDigitsInElement) ==
  IF ctx.pointer # Nil /\ ~atLeaf(heap, ctx)
  THEN IF ctx.branchPosition = numDigitsInElement
       THEN [result |-> Prefix, err |-> NoErr, ctx |-> ctx]
       ELSE Let(descendTo(heap, ctx, value), LAMBDA m :
              IF m.err # NoErr THEN [result |-> -1, err |-> m.err, ctx |-> ctx]
              ELSE IF m.index = childNotFound
                   THEN [result |-> Unmatched, err |-> NoErr, ctx |-> m.ctx]
              ELSE findLoop(heap, m.ctx, value, numDigitsInElement))
  ELSE IF ctx.pointer # Nil /\ ctx.branchPosition # numDigitsInElement
       THEN [result |-> Extension, err |-> NoErr, ctx |-> ctx]
  ELSE [result |-> Matched, err |-> NoErr, ctx |-> ctx]

find(t, ctx, value0) ==
  Let(TrimSpace(value0), LAMBDA value :
    IF value = << >> THEN [result |-> -1, err |-> ErrNotFound, ctx |-> ctx]
    ELSE IF IsEmpty(t) THEN [result |-> Unmatched, err |-> NoErr, ctx |-> ctx]
    ELSE findLoop(t.heap, prepareSearch(t, ctx), value, NumDigitsOf(value)))

(***************************************************************************)
(* trie.addNode, trie.moveToPredecessor, trie.insert, trie.remove.         *)
(* status is "ok" when the call returns, "hang" when it loops for ever and *)
(* "panic" when it faults.                                                 *)
(***************************************************************************)
\* one round of the loop of addNode: a new internal node under the pointer
extendPath(heap, ctx, digit) ==
  Let(NewId(heap), LAMBDA childNode :
    Let(AddChild((childNode :> newNode(Base)) @@ heap, ctx.pointer, digit, childNode),
        LAMBDA a :
      [heap |-> a.heap, err |-> a.err,
       ctx |-> [pointer |-> childNode, branchPosition |-> ctx.branchPosition + 1]]))

RECURSIVE addNodeLoop(_, _, _, _)
addNodeLoop(heap, ctx, node, value) ==
  Let(DigitOf(value, ctx.branchPosition), LAMBDA d :
    IF d.err # NoErr THEN [heap |-> heap, ctx |-> ctx, err |-> d.err]
    ELSE IF ctx.branchPosition < NumDigitsOf(value) - 1
    THEN Let(extendPath(heap, ctx, d.digit), LAMBDA e :
           IF e.err # NoErr THEN [heap |-> heap, ctx |-> ctx, err |-> e.err]
           ELSE addNodeLoop(e.heap, e.ctx, node, value))
    ELSE Let(AddChild(heap, ctx.pointer, d.digit, node), LAMBDA a :
           IF a.err # NoErr THEN [heap |-> heap, ctx |-> ctx, err |-> a.err]
           ELSE [heap |-> a.heap, err |-> NoErr,
                 ctx |-> [pointer |-> node,
                          branchPosition |-> ctx.branchPosition + 1]]))

\* with no current node (the trie was empty) a new root is made
addNode(t, ctx, node) ==
  Let(NewId(t.heap), LAMBDA rootId :
    Let(IF ctx.pointer = Nil
        THEN [t EXCEPT !.heap = (rootId :> newRootNode(Base)) @@ @, !.root = rootId]
        ELSE t, LAMBDA t1 :
      Let(addNodeLoop(t1.heap,
                      IF ctx.pointer = Nil THEN [ctx EXCEPT !.pointer = rootId] ELSE ctx,
                      node, t1.heap[node].value.value), LAMBDA r :
        [t |-> [t1 EXCEPT !.heap = r.heap], ctx |-> r.ctx, err |-> r.err])))

moveToPredecessor(t, ctx, value, searchResult) ==
  IF atLeaf(t.heap, ctx) /\ (searchResult = Greater \/ searchResult = Extension)
  THEN [found |-> TRUE, ctx |-> ctx, err |-> NoErr, status |-> "ok"]
  ELSE Let(IF searchResult # Greater
           THEN retraceToLastLeftFork(t.heap, ctx, value)
           ELSE [ctx |-> ctx, err |-> NoErr], LAMBDA r :
         IF r.err # NoErr
         THEN [found |-> FALSE, ctx |-> r.ctx, err |-> r.err, status |-> "ok"]
         ELSE IF atRoot(t.heap, r.ctx)
              THEN [found |-> FALSE, ctx |-> r.ctx, err |-> NoErr, status |-> "ok"]
         ELSE Let(moveToMaxDescendant(t.heap, r.ctx), LAMBDA m :
                [found |-> TRUE, ctx |-> m.ctx, err |-> NoErr,
                 status |-> IF m.hang THEN "hang" ELSE "ok"]))

\* the part of insert after addNode: the new leaf is spliced into the list
linkLeaf(t, ctx, leaf, entry) ==
  Let(moveToPredecessor(t, ctx, entry.value, Matched), LAMBDA m :
    IF m.status # "ok" THEN [t |-> t, err |-> NoErr, status |-> m.status, ctx |-> m.ctx]
    ELSE IF m.err # NoErr THEN [t |-> t, err |-> m.err, status |-> "ok", ctx |-> m.ctx]
    ELSE [t |-> [t EXCEPT !.heap = AddAfter(@, leaf,
                                            IF m.found THEN m.ctx.pointer ELSE t.head),
                          !.size = @ + 1],
          err |-> NoErr, status |-> "ok", ctx |-> m.ctx])

\* the part of insert after find: the leaf is made and added to the tree
addLeaf(t, ctx, entry) ==
  Let(NewId(t.heap), LAMBDA leaf :
    Let(addNode([t EXCEPT !.heap = (leaf :> [newLeaf EXCEPT !.value = entry]) @@ @],
                ctx, leaf), LAMBDA a :
      IF a.err # NoErr THEN [t |-> a.t, err |-> a.err, status |-> "ok", ctx |-> a.ctx]
      ELSE linkLeaf(a.t, a.ctx, leaf, entry)))

\* insert that, on Matched, puts the entry in the leaf found and returns nil
insertOverwrites(t, entry) ==
  IF entry.nil THEN [t |-> t, err |-> NoErr, status |-> "panic"]
  ELSE Let(find(t, acquireSearchContext, entry.value), LAMBDA f :
    IF f.err # NoErr THEN [t |-> t, err |-> f.err, status |-> "ok"]
    ELSE IF f.result = Matched
         THEN [t |-> [t EXCEPT !.heap[f.ctx.pointer].value = entry],
               err |-> NoErr, status |-> "ok"]
    ELSE addLeaf(t, f.ctx, entry))

\* insert that rejects a Matched key only, whatever the digitizer says
insertMatchedOnly(t, entry) ==
  IF entry.nil THEN [t |-> t, err |-> NoErr, status |-> "panic"]
  ELSE Let(find(t, acquireSearchContext, entry.value), LAMBDA f :
    IF f.err # NoErr THEN [t |-> t, err |-> f.err, status |-> "ok"]
    ELSE IF f.result = Matched
         THEN [t |-> t, err |-> ErrPrefixViolation, status |-> "ok"]
    ELSE addLeaf(t, f.ctx, entry))

\* insert with the context it has acquired; ctx is the context as it is when
\* insert ends.  entry.Value() on a nil Entry faults
insertFrom(t, ctx, entry) ==
  IF entry.nil THEN [t |-> t, err |-> NoErr, status |-> "panic", ctx |-> ctx]
  ELSE Let(find(t, ctx, entry.value), LAMBDA f :
    IF f.err # NoErr THEN [t |-> t, err |-> f.err, status |-> "ok", ctx |-> f.ctx]
    ELSE IF f.result = Matched
            \/ (~IsPrefixFree /\ (f.result = Prefix \/ f.result = Extension))
         THEN [t |-> t, err |-> ErrPrefixViolation, status |-> "ok", ctx |-> f.ctx]
    ELSE addLeaf(t, f.ctx, entry))

insert(t, entry) ==
  Let(insertFrom(t, acquireSearchContext, entry), LAMBDA r :
    [t |-> r.t, err |-> r.err, status |-> r.status])

RECURSIVE removeLoop(_, _, _, _)
removeLoop(heap, node, value, level) ==
  IF ~heap[node].isRoot /\ ~HasChildren(heap[node])
  THEN Let(DigitOf(value, level - 1), LAMBDA d :
         IF d.err # NoErr THEN [heap |-> heap, err |-> d.err]
         ELSE Let(RemoveChildAt(heap, heap[node].parent, d.digit), LAMBDA h :
                removeLoop(h, heap[node].parent, value, level - 1)))
  ELSE [heap |-> heap, err |-> NoErr]

\* remove without t.size--
removeKeepsSize(t, node) ==
  Let(IF t.heap[node].isLeaf THEN LeafRemove(t.heap, node) ELSE t.heap, LAMBDA h1 :
    Let(removeLoop(h1, node, h1[node].value.value, NumDigitsOf(h1[node].value.value)),
        LAMBDA r : [t |-> [t EXCEPT !.heap = r.heap], err |-> r.err]))

\* remove without leaf.Remove(): the leaf stays in the list
removeKeepsLink(t, node) ==
  Let(removeLoop(t.heap, node, t.heap[node].value.value,
                 NumDigitsOf(t.heap[node].value.value)), LAMBDA r :
    IF r.err # NoErr THEN [t |-> [t EXCEPT !.heap = r.heap], err |-> r.err]
    ELSE [t |-> [t EXCEPT !.heap = r.heap, !.size = @ - 1], err |-> NoErr])

remove(t, node) ==
  Let(IF t.heap[node].isLeaf THEN LeafRemove(t.heap, node) ELSE t.heap, LAMBDA h1 :
    Let(removeLoop(h1, node, h1[node].value.value, NumDigitsOf(h1[node].value.value)),
        LAMBDA r :
      IF r.err # NoErr THEN [t |-> [t EXCEPT !.heap = r.heap], err |-> r.err]
      ELSE [t |-> [t EXCEPT !.heap = r.heap, !.size = @ - 1], err |-> NoErr]))

(***************************************************************************)
(* The iterator, as Clear and Entries use it.                              *)
(***************************************************************************)
RECURSIVE skipRemovedElements(_, _)
skipRemovedElements(heap, leafNode) ==
  IF heap[leafNode].isHead \/ heap[leafNode].isTail \/ ~IsDeleted(heap[leafNode])
  THEN [heap |-> heap, leaf |-> leafNode]
  ELSE Let(skipRemovedElements(heap, heap[leafNode].next), LAMBDA r :
         [heap |-> [r.heap EXCEPT ![leafNode].next = r.leaf], leaf |-> r.leaf])

\* advance that follows next from a removed leaf without skipping
advanceUnskipped(heap, pointer) ==
  IF heap[pointer].isTail THEN [heap |-> heap, pointer |-> pointer, ok |-> FALSE]
  ELSE [heap |-> heap, pointer |-> heap[pointer].next,
        ok |-> ~heap[heap[pointer].next].isTail]

\* advance that takes the entry it moves off out of the list
advanceUnlinking(heap, pointer) ==
  IF heap[pointer].isTail THEN [heap |-> heap, pointer |-> pointer, ok |-> FALSE]
  ELSE [heap |-> IF heap[pointer].isHead \/ IsDeleted(heap[pointer]) THEN heap
                 ELSE LeafRemove(heap, pointer),
        pointer |-> heap[pointer].next,
        ok |-> ~heap[heap[pointer].next].isTail]

advance(heap, pointer) ==
  IF heap[pointer].isTail THEN [heap |-> heap, pointer |-> pointer, ok |-> FALSE]
  ELSE Let(IF ~heap[pointer].isHead /\ IsDeleted(heap[pointer])
           THEN skipRemovedElements(heap, pointer)
           ELSE [heap |-> heap, leaf |-> heap[pointer].next], LAMBDA r :
         [heap |-> r.heap, pointer |-> r.leaf, ok |-> ~r.heap[r.leaf].isTail])

inCollection(heap, pointer) ==
  IF heap[pointer].isHead \/ heap[pointer].isTail THEN FALSE
  ELSE ~IsDeleted(heap[pointer])

get(heap, pointer) ==
  IF ~inCollection(heap, pointer) THEN [entry |-> NilEntry, err |-> ErrNotFound]
  ELSE [entry |-> heap[pointer].value, err |-> NoErr]

iteratorRemove(t, pointer) ==
  IF inCollection(t.heap, pointer) THEN remove(t, pointer)
  ELSE [t |-> t, err |-> NoErr]

(***************************************************************************)
(* Public operations of the Trie.                                          *)
(***************************************************************************)
\* New() without options: tail.SetNext(head) is what the constructor calls
New ==
  [heap |-> << [newLeaf EXCEPT !.isHead = TRUE, !.next = 2],
               [newLeaf EXCEPT !.isTail = TRUE, !.next = 1] >>,
   root |-> Nil, head |-> 1, tail |-> 2, size |-> 0]

ErrDigitizerBase == "base for digitizer must be greater than 0"

\* the nil Trie
NoTrie == [heap |-> << >>, root |-> Nil, head |-> Nil, tail |-> Nil, size |-> 0]

\* New that refuses a negative base only
NewWithNegativeRefused(opt) ==
  IF ~opt.nil /\ opt.base < 0
  THEN [t |-> NoTrie, digitizer |-> NoDigitizer, err |-> ErrDigitizerBase]
  ELSE [t |-> New, digitizer |-> IF opt.nil THEN NewASCIIDigitizer ELSE opt,
        err |-> NoErr]

\* New(WithDigitizer(opt)), or New() when opt is nil
NewWith(opt) ==
  IF ~opt.nil /\ opt.base <= 0
  THEN [t |-> NoTrie, digitizer |-> NoDigitizer, err |-> ErrDigitizerBase]
  ELSE [t |-> New, digitizer |-> IF opt.nil THEN NewASCIIDigitizer ELSE opt,
        err |-> NoErr]

TrieLen(t) == t.size

AddEntry(t, entry) == insert(t, entry)

\* Add(values...): blank values are skipped, the first error ends the loop;
\* added lists the values whose AddEntry returned nil
RECURSIVE AddLoop(_, _, _)
AddLoop(t, values, added) ==
  IF values = << >> THEN [t |-> t, err |-> NoErr, status |-> "ok", added |-> added]
  ELSE Let(TrimSpace(Head(values)), LAMBDA v :
         IF v = << >> THEN AddLoop(t, Tail(values), added)
         ELSE Let(AddEntry(t, NewEntry(v, "nil")), LAMBDA r :
                IF r.status # "ok" \/ r.err # NoErr
                THEN [t |-> r.t, err |-> r.err, status |-> r.status, added |-> added]
                ELSE AddLoop(r.t, Tail(values), Append(added, v))))

Add(t, values) == AddLoop(t, values, << >>)

\* RemoveEntry that reports a key that is not Matched as an error
RemoveEntryStrict(t, entry) ==
  IF IsEmpty(t) THEN [t |-> t, removed |-> FALSE, err |-> ErrCollectionEmpty]
  ELSE IF entry.nil THEN [t |-> t, removed |-> FALSE, err |-> ErrValueRequired]
  ELSE Let(find(t, acquireSearchContext, entry.value), LAMBDA f :
         IF f.err # NoErr THEN [t |-> t, removed |-> FALSE, err |-> NoErr]
         ELSE IF f.result # Matched THEN [t |-> t, removed |-> FALSE, err |-> ErrNotFound]
         ELSE Let(remove(t, f.ctx.pointer), LAMBDA r :
                IF r.err # NoErr THEN [t |-> r.t, removed |-> FALSE, err |-> r.err]
                ELSE [t |-> r.t, removed |-> TRUE, err |-> NoErr]))

\* the part of RemoveEntry after the context is acquired; ctx is the context
\* as it is when RemoveEntry ends
RemoveEntryFrom(t, ctx, entry) ==
  Let(find(t, ctx, entry.value), LAMBDA f :
    IF f.err # NoErr THEN [t |-> t, removed |-> FALSE, err |-> NoErr, ctx |-> f.ctx]
    ELSE IF f.result # Matched
         THEN [t |-> t, removed |-> FALSE, err |-> NoErr, ctx |-> f.ctx]
    ELSE Let(remove(t, f.ctx.pointer), LAMBDA r :
           IF r.err # NoErr THEN [t |-> r.t, removed |-> FALSE, err |-> r.err, ctx |-> f.ctx]
           ELSE [t |-> r.t, removed |-> TRUE, err |-> NoErr, ctx |-> f.ctx]))

RemoveEntry(t, entry) ==
  IF IsEmpty(t) THEN [t |-> t, removed |-> FALSE, err |-> ErrCollectionEmpty]
  ELSE IF entry.nil THEN [t |-> t, removed |-> FALSE, err |-> ErrValueRequired]
  ELSE Let(RemoveEntryFrom(t, acquireSearchContext, entry), LAMBDA r :
         [t |-> r.t, removed |-> r.removed, err |-> r.err])

Remove(t, value) == RemoveEntry(t, NewEntry(value, "nil"))

\* the loop of Clear; removed counts the removals that succeeded
RECURSIVE ClearLoop(_, _, _)
ClearLoop(t, pointer, removed) ==
  Let(advance(t.heap, pointer), LAMBDA a :
    IF ~a.ok THEN [t |-> [t EXCEPT !.heap = a.heap], removed |-> removed]
    ELSE Let(iteratorRemove([t EXCEPT !.heap = a.heap], a.pointer), LAMBDA r :
           ClearLoop(r.t, a.pointer,
                     IF inCollection(a.heap, a.pointer) /\ r.err = NoErr
                     THEN removed + 1 ELSE removed)))

\* Clear that removes the first entry only
ClearFirstOnly(t) ==
  Let(advance(t.heap, t.head), LAMBDA a :
    IF ~a.ok THEN [t |-> [t EXCEPT !.heap = a.heap], removed |-> 0]
    ELSE Let(iteratorRemove([t EXCEPT !.heap = a.heap], a.pointer), LAMBDA r :
           [t |-> r.t, removed |-> IF r.err = NoErr THEN 1 ELSE 0]))

Clear(t) == ClearLoop(t, t.head, 0)

RECURSIVE EntriesLoop(_, _, _)
EntriesLoop(heap, pointer, entries) ==
  Let(advance(heap, pointer), LAMBDA a :
    IF ~a.ok THEN [entries |-> entries, err |-> NoErr]
    ELSE Let(get(a.heap, a.pointer), LAMBDA g :
           IF g.err # NoErr THEN [entries |-> entries, err |-> g.err]
           ELSE EntriesLoop(a.heap, a.pointer, Append(entries, g.entry))))

Entries(t) == EntriesLoop(t.heap, t.head, << >>)

\* Values panics when Entries fails
Values(t) ==
  Let(Entries(t), LAMBDA e :
    [values |-> [i \in DOMAIN e.entries |-> e.entries[i].value],
     status |-> IF e.err # NoErr THEN "panic" ELSE "ok"])

Contains(t, value) ==
  IF IsEmpty(t) THEN FALSE
  ELSE IF TrimSpace(value) = << >> THEN FALSE
  ELSE Let(find(t, acquireSearchContext, TrimSpace(value)), LAMBDA f :
         IF f.err # NoErr THEN FALSE ELSE f.result = Matched)

\* trie.node
node(t, value) ==
  IF IsEmpty(t) THEN [node |-> Nil, err |-> ErrCollectionEmpty]
  ELSE IF TrimSpace(value) = << >> THEN [node |-> Nil, err |-> ErrValueRequired]
  ELSE Let(find(t, acquireSearchContext, TrimSpace(value)), LAMBDA f :
         IF f.err # NoErr THEN [node |-> Nil, err |-> f.err]
         ELSE IF f.result = Matched THEN [node |-> f.ctx.pointer, err |-> NoErr]
         ELSE [node |-> Nil, err |-> ErrNotFound])

Entry(t, value) ==
  Let(node(t, value), LAMBDA v :
    IF v.err # NoErr THEN [entry |-> NilEntry, err |-> v.err]
    ELSE [entry |-> t.heap[v.node].value, err |-> NoErr])

\* Value().Value() of a list neighbour: a nil neighbour, or a sentinel, which
\* holds no entry, faults
valueOf(t, n) ==
  IF n = Nil \/ t.heap[n].value.nil
  THEN [value |-> << >>, err |-> NoErr, status |-> "panic"]
  ELSE [value |-> t.heap[n].value.value, err |-> NoErr, status |-> "ok"]

\* Min without the check for the empty trie
MinUnchecked(t) == valueOf(t, t.heap[t.head].next)

Min(t) ==
  IF IsEmpty(t) THEN [value |-> << >>, err |-> ErrCollectionEmpty, status |-> "ok"]
  ELSE valueOf(t, t.heap[t.head].next)

Max(t) ==
  IF IsEmpty(t) THEN [value |-> << >>, err |-> ErrCollectionEmpty, status |-> "ok"]
  ELSE valueOf(t, t.heap[t.tail].previous)

\* a query answer: the value returned, the error, and whether the call returned
Answer(value, err, status) == [value |-> value, err |-> err, status |-> status]

\* the end of Predecessor: what moveToPredecessor found
predecessorOf(t, value, m) ==
  IF m.status # "ok" THEN Answer(value, NoErr, m.status)
  ELSE IF m.err # NoErr THEN Answer(<< >>, m.err, "ok")
  ELSE IF m.found THEN valueOf(t, m.ctx.pointer)
  ELSE Answer(value, ErrNotFound, "ok")

Predecessor(t, value0) ==
  IF IsEmpty(t) THEN Answer(value0, ErrCollectionEmpty, "ok")
  ELSE Let(TrimSpace(value0), LAMBDA value :
    IF value = << >> THEN Answer(value, ErrValueRequired, "ok")
    ELSE Let(find(t, acquireSearchContext, value), LAMBDA f :
      IF f.err # NoErr THEN Answer(value, f.err, "ok")
      ELSE predecessorOf(t, value, moveToPredecessor(t, f.ctx, value, f.result))))

\* the end of Successor: successor is the leaf chosen, t.tail when none was
successorOf(t, value, successor) ==
  IF ~t.heap[successor].isTail THEN valueOf(t, successor)
  ELSE Answer(value, ErrNotFound, "ok")

\* the branch of Successor for a key that is not Matched
successorUnmatched(t, value, m) ==
  IF m.status # "ok" THEN Answer(value, NoErr, m.status)
  ELSE IF m.err # NoErr THEN Answer(<< >>, m.err, "ok")
  ELSE IF m.found
       THEN IF ~t.heap[m.ctx.pointer].isLeaf THEN Answer(value, NoErr, "panic")
            ELSE successorOf(t, value, t.heap[m.ctx.pointer].next)
  ELSE successorOf(t, value, t.tail)

Successor(t, value0) ==
  IF IsEmpty(t) THEN Answer(value0, ErrCollectionEmpty, "ok")
  ELSE Let(TrimSpace(value0), LAMBDA value :
    IF value = << >> THEN Answer(value, ErrValueRequired, "ok")
    ELSE Let(find(t, acquireSearchContext, value), LAMBDA f :
      IF f.err # NoErr THEN Answer(value, f.err, "ok")
      ELSE IF f.result = Matched
           THEN successorOf(t, value, t.heap[f.ctx.pointer].next)
      ELSE successorUnmatched(t, value,
                              moveToPredecessor(t, f.ctx, value, f.result))))

(***************************************************************************)
(* Garbage collection.  Between two calls only the objects reachable from  *)
(* the trie (root, head, tail) exist for the program; they are renumbered  *)
(* in a fixed order (head, tail, the tree in preorder, then the rest), so  *)
(* that a state does not depend on the addresses the allocator handed out. *)
(***************************************************************************)
Refs(n) == ({ n.parent, n.next, n.previous } \cup Range(n.children)) \ {Nil}

RECURSIVE Reachable(_, _)
Reachable(heap, S) ==
  Let(S \cup UNION { Refs(heap[x]) : x \in S }, LAMBDA T :
    IF T = S THEN S ELSE Reachable(heap, T))

ChildrenInOrder(n) ==
  Let(SortedSeq(DOMAIN n.children), LAMBDA slots :
    [i \in DOMAIN slots |-> n.children[slots[i]]])

RECURSIVE SubtreeOrder(_, _)
RECURSIVE ForestOrder(_, _)
SubtreeOrder(heap, n) == << n >> \o ForestOrder(heap, ChildrenInOrder(heap[n]))
ForestOrder(heap, ns) ==
  IF ns = << >> THEN << >>
  ELSE SubtreeOrder(heap, Head(ns)) \o ForestOrder(heap, Tail(ns))

\* the objects of t renumbered: order[i] becomes i
Renumber(t, order) ==
  Let([x \in Range(order) \cup {Nil} |->
         IF x = Nil THEN Nil ELSE CHOOSE i \in DOMAIN order : order[i] = x], LAMBDA to :
    [heap |-> [i \in DOMAIN order |->
                 [t.heap[order[i]] EXCEPT !.parent = to[@], !.next = to[@],
                                          !.previous = to[@],
                                          !.children = [s \in DOMAIN @ |-> to[@[s]]]]],
     root |-> to[t.root], head |-> to[t.head], tail |-> to[t.tail],
     size |-> t.size])

Collect(t) ==
  Let(<< t.head, t.tail >>
        \o (IF t.root = Nil THEN << >> ELSE SubtreeOrder(t.heap, t.root)), LAMBDA first :
    Renumber(t, first \o SortedSeq(
      Reachable(t.heap, { t.head, t.tail } \cup ({ t.root } \ {Nil})) \ Range(first))))

\* the same with an iterator alive: the leaf it points to, and what that leaf
\* refers to, exist too; pointer is the leaf under its new number
CollectKeeping(t, pointer) ==
  Let(<< t.head, t.tail >>
        \o (IF t.root = Nil THEN << >> ELSE SubtreeOrder(t.heap, t.root)), LAMBDA first :
    Let(first \o SortedSeq(
          Reachable(t.heap, { t.head, t.tail } \cup ({ t.root, pointer } \ {Nil}))
            \ Range(first)), LAMBDA order :
      [t |-> Renumber(t, order),
       pointer |-> IF pointer = Nil THEN Nil
                   ELSE CHOOSE i \in DOMAIN order : order[i] = pointer]))

(***************************************************************************)
(* Completions and LongestCommonPrefix.  The collection handed in is a     *)
(* list; Add appends to it.                                                *)
(***************************************************************************)
\* searchContext.entriesInSubtree below node n: the slots are visited in
\* ascending order
RECURSIVE entriesInSubtree(_, _, _)
RECURSIVE entriesInChildren(_, _, _)
entriesInSubtree(heap, n, collection) ==
  IF heap[n].isLeaf THEN Append(collection, heap[n].value.value)
  ELSE entriesInChildren(heap, ChildrenInOrder(heap[n]), collection)
entriesInChildren(heap, ns, collection) ==
  IF ns = << >> THEN collection
  ELSE entriesInChildren(heap, Tail(ns), entriesInSubtree(heap, Head(ns), collection))

\* Parent() of the root is nil, and ChildAt on it faults; reflect.DeepEqual
\* of two nodes holds only for one and the same node, the keys in the
\* leaves below two nodes being different
processedEndOfString(heap, ctx) ==
  IF ctx.pointer = Nil \/ heap[ctx.pointer].parent = Nil
  THEN [eos |-> FALSE, err |-> NoErr, status |-> "panic"]
  ELSE Let(ChildAt(heap[heap[ctx.pointer].parent], 0), LAMBDA c :
    IF c.panic THEN [eos |-> FALSE, err |-> NoErr, status |-> "panic"]
    ELSE IF c.err # NoErr THEN [eos |-> FALSE, err |-> c.err, status |-> "ok"]
    ELSE [eos |-> IsPrefixFree /\ ~heap[ctx.pointer].isRoot /\ c.node = ctx.pointer,
          err |-> NoErr, status |-> "ok"])

\* what a call with a collection returns: the collection, the error, and
\* whether the call returned
Collected(entries, err, status) == [entries |-> entries, err |-> err, status |-> status]

\* the end of Completions, ctx being the context after the step back
completionsAt(t, ctx, searchResult, numDigits, entries) ==
  IF searchResult = Prefix \/ searchResult = Matched \/ ctx.branchPosition = numDigits
  THEN Collected(entriesInSubtree(t.heap, ctx.pointer, entries), NoErr, "ok")
  ELSE Collected(entries, NoErr, "ok")

Completions(t, prefix, entries) ==
  IF IsEmpty(t) THEN Collected(entries, ErrCollectionEmpty, "ok")
  ELSE Let(find(t, acquireSearchContext, prefix), LAMBDA f :
    IF f.err # NoErr THEN Collected(entries, f.err, "ok")
    ELSE IF ~IsPrefixFree
         THEN completionsAt(t, f.ctx, f.result, NumDigitsOf(prefix), entries)
    ELSE Let(processedEndOfString(t.heap, f.ctx), LAMBDA e :
      IF e.status # "ok" THEN Collected(entries, NoErr, e.status)
      ELSE IF e.err # NoErr THEN Collected(entries, e.err, "ok")
      ELSE completionsAt(t, IF e.eos THEN ascend(t.heap, f.ctx) ELSE f.ctx,
                         f.result, NumDigitsOf(prefix) - 1, entries)))

LongestCommonPrefix(t, prefix, entries) ==
  IF IsEmpty(t) THEN Collected(entries, ErrCollectionEmpty, "ok")
  ELSE Let(find(t, acquireSearchContext, prefix), LAMBDA f :
    IF f.err # NoErr THEN Collected(entries, f.err, "ok")
    ELSE Let(processedEndOfString(t.heap, f.ctx), LAMBDA e :
      IF e.status # "ok" THEN Collected(entries, NoErr, e.status)
      ELSE IF e.err # NoErr THEN Collected(entries, e.err, "ok")
      ELSE Collected(entriesInSubtree(t.heap,
                                      (IF e.eos THEN ascend(t.heap, f.ctx) ELSE f.ctx).pointer,
                                      entries),
                     NoErr, "ok")))

(***************************************************************************)
(* The iterator as its user sees it, ValueAt and Leaves.                   *)
(***************************************************************************)
ErrNoMoreElements == "ErrNoMoreElements"
ErrTrieIndexOutOfBounds == "trie: index out of bounds"
ErrEOF == "EOF"

\* hasNext that asks only whether the iterator stands on tail
hasNextOffTail(heap, pointer) ==
  [heap |-> heap, result |-> ~heap[pointer].isTail]

\* iterator.hasNext: the leaf skipRemovedElements returns is dropped, the
\* next links it has set stay
hasNext(heap, pointer) ==
  Let(IF IsDeleted(heap[pointer]) THEN skipRemovedElements(heap, pointer).heap ELSE heap,
      LAMBDA h :
    [heap |-> h,
     result |-> ~h[pointer].isTail /\ ~h[h[pointer].next].isTail])

\* iterator.Next
iteratorNext(heap, pointer) ==
  Let(advance(heap, pointer), LAMBDA a :
    Let(get(a.heap, a.pointer), LAMBDA g :
      [heap |-> a.heap, pointer |-> a.pointer,
       value |-> IF g.err # NoErr THEN << >> ELSE g.entry.value,
       err |-> g.err]))

trieCheckBounds(t, index) ==
  IF index < 0 \/ index >= TrieLen(t) THEN ErrTrieIndexOutOfBounds ELSE NoErr

RECURSIVE ValueAtLoop(_, _, _, _)
ValueAtLoop(t, pointer, i, index) ==
  Let(hasNext(t.heap, pointer), LAMBDA h :
    IF ~h.result THEN [entry |-> NilEntry, err |-> ErrEOF]
    ELSE Let(iteratorNext(h.heap, pointer), LAMBDA n :
      IF n.err # NoErr THEN [entry |-> NilEntry, err |-> n.err]
      ELSE IF i = index THEN Entry([t EXCEPT !.heap = n.heap], n.value)
      ELSE ValueAtLoop([t EXCEPT !.heap = n.heap], n.pointer, i + 1, index)))

ValueAt(t, index) ==
  IF trieCheckBounds(t, index) # NoErr
  THEN [entry |-> NilEntry, err |-> trieCheckBounds(t, index)]
  ELSE ValueAtLoop(t, t.head, 0, index)

\* Leaves: the values of the children of the node found that are leaves;
\* the node found is a leaf, and a leaf has no children
Leaves(t, value) ==
  Let(node(t, value), LAMBDA v :
    IF v.err # NoErr THEN [leaves |-> << >>, err |-> v.err]
    ELSE [leaves |-> entriesInChildren(t.heap,
                       Let(ChildrenInOrder(t.heap[v.node]), LAMBDA cs :
                         SelectSeq(cs, LAMBDA c : t.heap[c].isLeaf /\ ~t.heap[c].value.nil)),
                       << >>),
          err |-> NoErr])

(***************************************************************************)
(* The list package: a List is a slice of elements, an iterator is a list  *)
(* and an index into it.  list is a List a caller holds, listLast the last *)
(* call on it with what it returned.                                       *)
(***************************************************************************)
VARIABLES list, listLast

ErrBoundsOutOfRange == "ErrBoundsOutOfRange"

listIterate(l) == [index |-> 0, list |-> l]

listHasNext(i) == IF Len(i.list) = 0 THEN FALSE ELSE i.index < Len(i.list)

\* List.ValueAt: checkBounds lets index = Len through, and indexing faults
listValueAt(l, index) ==
  IF index < 0 \/ index > Len(l)
  THEN [value |-> << >>, err |-> ErrBoundsOutOfRange, status |-> "ok"]
  ELSE IF index = Len(l) THEN [value |-> << >>, err |-> NoErr, status |-> "panic"]
  ELSE [value |-> l[index + 1], err |-> NoErr, status |-> "ok"]

\* List.RemoveAt: the elements after index are copied one place down and the
\* list is cut by one
listRemoveAt(l, index) ==
  Let(listValueAt(l, index), LAMBDA v :
    IF v.status # "ok" \/ v.err # NoErr
    THEN [list |-> l, value |-> v.value, err |-> v.err, status |-> v.status]
    ELSE [list |-> [i \in 1..(Len(l) - 1) |-> IF i <= index THEN l[i] ELSE l[i + 1]],
          value |-> v.value, err |-> NoErr, status |-> "ok"])

listNext(i) ==
  IF ~listHasNext(i)
  THEN [i |-> i, value |-> << >>, err |-> ErrNoMoreElements, status |-> "ok"]
  ELSE Let(listValueAt(i.list, i.index), LAMBDA v :
    IF v.status # "ok" \/ v.err # NoErr
    THEN [i |-> i, value |-> v.value, err |-> v.err, status |-> v.status]
    ELSE [i |-> [i EXCEPT !.index = @ + 1], value |-> v.value, err |-> NoErr,
          status |-> "ok"])

(***************************************************************************)
(* The state machine.  trie is the Trie object between two calls; last is  *)
(* the last call with what it returned; model and balance are history      *)
(* variables: the reference map from the keys inserted and not removed     *)
(* since to their payloads, and the number of successful inserts minus the *)
(* number of successful removals.  iter is the iterator a caller holds:    *)
(* the leaf it points to, the keys its Next has returned, and whether the  *)
(* trie is as it was when Iterate returned it.                             *)
(***************************************************************************)
VARIABLES trie, last, model, balance, iter

VARIABLES nodes, nodeLast

NodeCap == 2

vars ==
  << trie, last, model, balance, iter, digitizer, option, list, listLast,
     searchContextPool, nodes, nodeLast >>

Letters == { 97, 98 }

CleanKeys == UNION { [1..n -> Letters] : n \in 1..MaxLen }

\* blank keys, keys with white space around them, keys with a character the
\* digitizer cannot map
OddKeys == { << >>, << 32 >>, << 32, 97 >>, << 97, 32 >>, << 32, 97, 98 >>,
             << 127 >>, << 97, 127 >>, << 98, 127 >>, << 97, 97, 127 >> }

Keys == CleanKeys \cup OddKeys

EntryInputs == { NewEntry(k, "bark") : k \in Keys } \cup { NilEntry }

RemoveEntryInputs ==
  { NewEntry(k, "bark") : k \in { << 97 >>, << 97, 98 >>, << >>, << 127 >> } }
    \cup { NilEntry }

BatchValues == { << 97 >>, << 97, 98 >>, << 32, 98 >>, << >>, << 98, 127 >> }

Batches == UNION { [1..n -> BatchValues] : n \in 1..MaxBatch }

Called(op, err, removed, status) ==
  [op |-> op, err |-> err, removed |-> removed, status |-> status]

Running == last.status = "ok"

Put(m, key, data) == (key :> data) @@ m

Drop(m, key) == [k \in (DOMAIN m) \ {key} |-> m[k]]

RECURSIVE PutAll(_, _)
PutAll(m, keys) == IF keys = << >> THEN m ELSE PutAll(Put(m, Head(keys), "nil"), Tail(keys))

ListCalled(op, err, status) == [op |-> op, err |-> err, status |-> status]

\* List[E]{}: the empty list, no call made on it yet
NewList == list = << >> /\ listLast = ListCalled("List", NoErr, "ok")

\* no context has been put back yet
NewPool == searchContextPool = {}

\* nodes a caller has made with newNode and newLeaf, and the last call on one
\* of them: two nodes of capacity NodeCap and a leaf
NodeCalled(op, err, removed, status) ==
  [op |-> op, err |-> err, removed |-> removed, status |-> status]

NewNodes ==
  /\ nodes = << newNode(NodeCap), newNode(NodeCap), newLeaf >>
  /\ nodeLast = NodeCalled("newNode", NoErr, FALSE, "ok")

NoIterator ==
  [active |-> FALSE, pointer |-> Nil, yielded |-> << >>, unmodified |-> TRUE,
   followers |-> {}]

Init ==
  /\ trie = New
  /\ last = Called("New", NoErr, FALSE, "ok")
  /\ model = << >>
  /\ balance = 0
  /\ iter = NoIterator
  /\ digitizer = NewASCIIDigitizer
  /\ option = NoDigitizer
  /\ NewList
  /\ NewPool
  /\ NewNodes

AddEntryCall(entry) ==
  \E r \in { AddEntry(trie, entry) } :
  /\ trie' = Collect(r.t)
  /\ last' = Called("AddEntry", r.err, FALSE, r.status)
  /\ IF r.status = "ok" /\ r.err = NoErr
     THEN model' = Put(model, entry.value, entry.data) /\ balance' = balance + 1
     ELSE UNCHANGED << model, balance >>

AddCall(values) ==
  \E r \in { Add(trie, values) } :
  /\ trie' = Collect(r.t)
  /\ last' = Called("Add", r.err, FALSE, r.status)
  /\ model' = PutAll(model, r.added)
  /\ balance' = balance + Len(r.added)

RemoveCall(value) ==
  \E r \in { Remove(trie, value) } :
  /\ trie' = Collect(r.t)
  /\ last' = Called("Remove", r.err, r.removed, "ok")
  /\ IF r.removed
     THEN model' = Drop(model, TrimSpace(value)) /\ balance' = balance - 1
     ELSE UNCHANGED << model, balance >>

RemoveEntryCall(entry) ==
  \E r \in { RemoveEntry(trie, entry) } :
  /\ trie' = Collect(r.t)
  /\ last' = Called("RemoveEntry", r.err, r.removed, "ok")
  /\ IF r.removed
     THEN model' = Drop(model, TrimSpace(entry.value)) /\ balance' = balance - 1
     ELSE UNCHANGED << model, balance >>

ClearCall ==
  \E r \in { Clear(trie) } :
  /\ trie' = Collect(r.t)
  /\ last' = Called("Clear", NoErr, r.removed > 0, "ok")
  /\ model' = << >>
  /\ balance' = balance - r.removed

\* the calls of Spec are made with no iterator held; no call on the trie
\* assigns its digitizer or touches the list
SameDigitizer ==
  UNCHANGED << digitizer, option, list, listLast, searchContextPool, nodes, nodeLast >>

SameIterator == iter' = iter /\ SameDigitizer

DoAddEntry == Running /\ SameIterator /\ trie.size < MaxSize /\ \E e \in EntryInputs : AddEntryCall(e)

DoAdd == Running /\ SameIterator /\ trie.size < MaxSize /\ \E values \in Batches : AddCall(values)

DoRemove == Running /\ SameIterator /\ \E k \in Keys : RemoveCall(k)

DoRemoveEntry == Running /\ SameIterator /\ \E e \in RemoveEntryInputs : RemoveEntryCall(e)

DoClear == Running /\ SameIterator /\ ClearCall

Next == DoAddEntry \/ DoAdd \/ DoRemove \/ DoRemoveEntry \/ DoClear

Spec == Init /\ [][Next]_vars

(***************************************************************************)
(* The trie constructed with any digitizer: New is given no digitizer, the *)
(* ASCII digitizer, a digitizer that has no place for the end of a key and *)
(* says it is not prefix-free, or a digitizer whose base is not positive.  *)
(* When New fails there is no trie to call.                                *)
(***************************************************************************)
Options ==
  { NoDigitizer, NewASCIIDigitizer,
    [NewASCIIDigitizer EXCEPT !.prefixFree = FALSE, !.endOfKey = FALSE],
    [NewASCIIDigitizer EXCEPT !.base = 0],
    [NewASCIIDigitizer EXCEPT !.base = -1, !.prefixFree = FALSE] }

InitWith ==
  \E opt \in Options :
  \E r \in { NewWith(opt) } :
  /\ trie = r.t
  /\ digitizer = r.digitizer
  /\ option = opt
  /\ last = Called("New", r.err, FALSE, IF r.err = NoErr THEN "ok" ELSE "no trie")
  /\ model = << >>
  /\ balance = 0
  /\ iter = NoIterator
  /\ NewList
  /\ NewPool
  /\ NewNodes

DigitizerKeys == CleanKeys \cup { << 97, 127 >> }

DoAddEntryWith ==
  /\ Running /\ SameIterator /\ trie.size < MaxSize
  /\ \E k \in DigitizerKeys : AddEntryCall(NewEntry(k, "bark"))

DoRemoveWith == Running /\ SameIterator /\ \E k \in DigitizerKeys : RemoveCall(k)

NextWith == DoAddEntryWith \/ DoRemoveWith

SpecWith == InitWith /\ [][NextWith]_vars

(***************************************************************************)
(* The list: a caller appends elements with Add and calls ValueAt and      *)
(* RemoveAt with any index.  After a fault there is no further call.       *)
(***************************************************************************)
ListElements == { << 97 >>, << 98 >>, << 97, 98 >> }

MaxListLen == 3

ListIndexes == -1..(MaxListLen + 1)

ListAddCall(e) ==
  /\ list' = Append(list, e)
  /\ listLast' = ListCalled("Add", NoErr, "ok")

ListValueAtCall(index) ==
  \E v \in { listValueAt(list, index) } :
  /\ list' = list
  /\ listLast' = ListCalled("ValueAt", v.err, v.status)

ListRemoveAtCall(index) ==
  \E r \in { listRemoveAt(list, index) } :
  /\ list' = r.list
  /\ listLast' = ListCalled("RemoveAt", r.err, r.status)

SameTrie ==
  UNCHANGED << trie, last, model, balance, iter, digitizer, option, searchContextPool,
               nodes, nodeLast >>

ListRunning == listLast.status = "ok"

DoListAdd ==
  ListRunning /\ SameTrie /\ Len(list) < MaxListLen /\ \E e \in ListElements : ListAddCall(e)

DoListValueAt == ListRunning /\ SameTrie /\ \E index \in ListIndexes : ListValueAtCall(index)

DoListRemoveAt == ListRunning /\ SameTrie /\ \E index \in ListIndexes : ListRemoveAtCall(index)

NextList == DoListAdd \/ DoListValueAt \/ DoListRemoveAt

SpecList == Init /\ [][NextList]_vars

(***************************************************************************)
(* The trie with an iterator in use: a caller takes an iterator with       *)
(* Iterate, calls HasNext and Next on it in any order, and may add and     *)
(* remove entries in between.                                              *)
(***************************************************************************)
IterKeys == { << 97 >>, << 97, 98 >>, << 98 >>, << 32, 98 >> }

(***************************************************************************)
(* The order of the keys.  Digits(key) is the path of the key's leaf: the  *)
(* digit of every place up to the end-of-key place, as insert reads them.  *)
(* DigitLess compares two keys by their paths, place by place; a path ends *)
(* in digit 0, which is below the digit of every character.                *)
(***************************************************************************)
Digits(key) == [i \in 1..NumDigitsOf(key) |-> DigitOf(key, i - 1).digit]

SeqLess(a, b) ==
  \E i \in 1..Len(b) :
    /\ \A j \in 1..(i - 1) : j <= Len(a) /\ a[j] = b[j]
    /\ (i > Len(a) \/ a[i] < b[i])

DigitLess(k1, k2) == SeqLess(Digits(k1), Digits(k2))

\* the keys in the leaves of heap that are in the overlay list
LiveKeys(heap) ==
  { heap[n].value.value :
      n \in { m \in 1..Len(heap) : /\ heap[m].isLeaf
                                   /\ ~heap[m].isHead /\ ~heap[m].isTail
                                   /\ ~IsDeleted(heap[m]) } }

\* history of the iterator: when the entry it stands on is removed, the keys
\* stored after that entry; from then on, those of them never removed since
Followers(t, u, pointer, moved, followers) ==
  IF /\ iter.active
     /\ inCollection(t.heap, pointer)
     /\ IsDeleted(u.heap[moved])
  THEN { k \in LiveKeys(u.heap) : DigitLess(t.heap[pointer].value.value, k) }
  ELSE followers \cap LiveKeys(u.heap)

\* Iterate: a new iterator on head
IterateCall ==
  /\ trie' = Collect(trie)
  /\ iter' = [active |-> TRUE, pointer |-> trie.head, yielded |-> << >>,
              unmodified |-> TRUE, followers |-> {}]
  /\ last' = Called("Iterate", NoErr, FALSE, "ok")
  /\ UNCHANGED << model, balance >>

HasNextCall ==
  \E h \in { hasNext(trie.heap, iter.pointer) } :
  \E c \in { CollectKeeping([trie EXCEPT !.heap = h.heap], iter.pointer) } :
  /\ trie' = c.t
  /\ iter' = [iter EXCEPT !.pointer = c.pointer]
  /\ last' = Called("HasNext", NoErr, FALSE, "ok")
  /\ UNCHANGED << model, balance >>

NextCall ==
  \E n \in { iteratorNext(trie.heap, iter.pointer) } :
  \E c \in { CollectKeeping([trie EXCEPT !.heap = n.heap], n.pointer) } :
  /\ trie' = c.t
  /\ iter' = [iter EXCEPT !.pointer = c.pointer,
                          !.yielded = IF n.err = NoErr THEN Append(@, n.value) ELSE @,
                          !.followers = {}]
  /\ last' = Called("Next", n.err, FALSE, "ok")
  /\ UNCHANGED << model, balance >>

\* AddEntry and Remove while the iterator is held
AddEntryUnderIterator(entry) ==
  \E r \in { AddEntry(trie, entry) } :
  \E c \in { CollectKeeping(r.t, iter.pointer) } :
  /\ trie' = c.t
  /\ iter' = [iter EXCEPT !.pointer = c.pointer,
                          !.unmodified = @ /\ r.err # NoErr]
  /\ last' = Called("AddEntry", r.err, FALSE, r.status)
  /\ IF r.status = "ok" /\ r.err = NoErr
     THEN model' = Put(model, entry.value, entry.data) /\ balance' = balance + 1
     ELSE UNCHANGED << model, balance >>

RemoveUnderIterator(value) ==
  \E r \in { Remove(trie, value) } :
  \E c \in { CollectKeeping(r.t, iter.pointer) } :
  /\ trie' = c.t
  /\ iter' = [iter EXCEPT !.pointer = c.pointer, !.unmodified = @ /\ ~r.removed,
                          !.followers = Followers(trie, c.t, iter.pointer, c.pointer, @)]
  /\ last' = Called("Remove", r.err, r.removed, "ok")
  /\ IF r.removed
     THEN model' = Drop(model, TrimSpace(value)) /\ balance' = balance - 1
     ELSE UNCHANGED << model, balance >>

DoIterate == Running /\ SameDigitizer /\ IterateCall

DoHasNext == Running /\ SameDigitizer /\ iter.active /\ HasNextCall

DoNext == Running /\ SameDigitizer /\ iter.active /\ NextCall

DoAddEntryUnderIterator ==
  Running /\ SameDigitizer /\ \E k \in IterKeys : AddEntryUnderIterator(NewEntry(k, "bark"))

DoRemoveUnderIterator == Running /\ SameDigitizer /\ \E k \in IterKeys : RemoveUnderIterator(k)

NextIter ==
  DoIterate \/ DoHasNext \/ DoNext \/ DoAddEntryUnderIterator \/ DoRemoveUnderIterator

SpecIter == Init /\ [][NextIter]_vars

(***************************************************************************)
(* The calls with the pool of search contexts: a call that acquires a      *)
(* context takes one out of the pool, or a new one when the pool gives     *)
(* none, and its deferred releaseSearchContext puts it back when the call  *)
(* ends, by return or by fault; a call that never ends never puts it back. *)
(* The pool may drop what it holds at any time.                            *)
(***************************************************************************)
PoolKeys == DigitizerKeys \cup { << 32 >> }

PoolEntries == { NewEntry(k, "bark") : k \in PoolKeys } \cup { NilEntry }

Checkouts == searchContextPool \cup { newSearchContext }

\* the context a call works with, made of one the pool gave
Acquired(c) == [pointer |-> c.pointer, branchPosition |-> c.branchPosition]

PoolAddEntryCall(entry) ==
  \E c \in Checkouts :
  \E r \in { insertFrom(trie, Acquired(c), entry) } :
  /\ trie' = Collect(r.t)
  /\ searchContextPool' =
       IF r.status = "hang" THEN searchContextPool \ {c}
       ELSE (searchContextPool \ {c}) \cup { releaseSearchContext(r.ctx) }
  /\ last' = Called("AddEntry", r.err, FALSE, r.status)
  /\ IF r.status = "ok" /\ r.err = NoErr
     THEN model' = Put(model, entry.value, entry.data) /\ balance' = balance + 1
     ELSE UNCHANGED << model, balance >>

PoolRemoveCall(value) ==
  IF IsEmpty(trie)
  THEN /\ last' = Called("Remove", ErrCollectionEmpty, FALSE, "ok")
       /\ UNCHANGED << trie, searchContextPool, model, balance >>
  ELSE \E c \in Checkouts :
       \E r \in { RemoveEntryFrom(trie, Acquired(c), NewEntry(value, "nil")) } :
       /\ trie' = Collect(r.t)
       /\ searchContextPool' = (searchContextPool \ {c}) \cup { releaseSearchContext(r.ctx) }
       /\ last' = Called("Remove", r.err, r.removed, "ok")
       /\ IF r.removed
          THEN model' = Drop(model, TrimSpace(value)) /\ balance' = balance - 1
          ELSE UNCHANGED << model, balance >>

PoolContainsCall(value) ==
  /\ last' = Called("Contains", NoErr, FALSE, "ok")
  /\ UNCHANGED << trie, model, balance >>
  /\ IF IsEmpty(trie) \/ TrimSpace(value) = << >>
     THEN UNCHANGED searchContextPool
     ELSE \E c \in Checkouts :
          \E f \in { find(trie, Acquired(c), TrimSpace(value)) } :
            searchContextPool' = (searchContextPool \ {c}) \cup { releaseSearchContext(f.ctx) }

SamePool == UNCHANGED << iter, digitizer, option, list, listLast, nodes, nodeLast >>

DoPoolAddEntry ==
  /\ Running /\ SamePool /\ trie.size < MaxSize
  /\ \E e \in PoolEntries : PoolAddEntryCall(e)

DoPoolRemove == Running /\ SamePool /\ \E k \in PoolKeys : PoolRemoveCall(k)

DoPoolContains == Running /\ SamePool /\ \E k \in PoolKeys : PoolContainsCall(k)

DoPoolClear == Running /\ SamePool /\ UNCHANGED searchContextPool /\ ClearCall

\* the pool drops the contexts it holds
DoPoolDrop ==
  /\ Running /\ SamePool /\ searchContextPool # {}
  /\ searchContextPool' = {}
  /\ UNCHANGED << trie, last, model, balance >>

NextPool == DoPoolAddEntry \/ DoPoolRemove \/ DoPoolContains \/ DoPoolClear \/ DoPoolDrop

SpecPool == Init /\ [][NextPool]_vars

(***************************************************************************)
(* The calls of the Node contract on the nodes of a caller: AddChild,      *)
(* RemoveChildAt and ChildAt with every node as receiver, every node as    *)
(* child and every index from below 0 to above the capacity.               *)
(***************************************************************************)
NodeIndexes == -1..(NodeCap + 1)

AddChildCall(p, index, child) ==
  \E r \in { AddChild(nodes, p, index, child) } :
  /\ nodes' = r.heap
  /\ nodeLast' = NodeCalled("AddChild", r.err, FALSE, "ok")

RemoveChildAtCall(p, index) ==
  \E r \in { RemoveChildAtOf(nodes, p, index) } :
  /\ nodes' = r.heap
  /\ nodeLast' = NodeCalled("RemoveChildAt", NoErr, r.removed,
                            IF r.panic THEN "panic" ELSE "ok")

ChildAtCall(p, index) ==
  \E r \in { ChildAt(nodes[p], index) } :
  /\ nodes' = nodes
  /\ nodeLast' = NodeCalled("ChildAt", r.err, FALSE, IF r.panic THEN "panic" ELSE "ok")

SameButNodes ==
  UNCHANGED << trie, last, model, balance, iter, digitizer, option, list, listLast,
               searchContextPool >>

NodeRunning == nodeLast.status = "ok"

DoAddChild ==
  /\ NodeRunning /\ SameButNodes
  /\ \E p \in DOMAIN nodes : \E index \in NodeIndexes : \E child \in DOMAIN nodes \ {p} :
       AddChildCall(p, index, child)

DoRemoveChildAt ==
  /\ NodeRunning /\ SameButNodes
  /\ \E p \in DOMAIN nodes : \E index \in NodeIndexes : RemoveChildAtCall(p, index)

DoChildAt ==
  /\ NodeRunning /\ SameButNodes
  /\ \E p \in DOMAIN nodes : \E index \in NodeIndexes : ChildAtCall(p, index)

NextNode == DoAddChild \/ DoRemoveChildAt \/ DoChildAt

SpecNode == Init /\ [][NextNode]_vars

(***************************************************************************)
(* What the claims speak of.                                               *)
(***************************************************************************)
Stored == DOMAIN model

Trimmed(k) == TrimSpace(k) = k

\* a failed insert left an internal node without children in the tree
Dangling ==
  \E i \in DOMAIN trie.heap :
    /\ ~trie.heap[i].isLeaf /\ ~trie.heap[i].isRoot
    /\ trie.heap[i].numChildren = 0

(***************************************************************************)
(* C1.  After any sequence of Add, AddEntry, Remove, RemoveEntry and Clear *)
(* on a trie with the default digitizer, Contains(k) is true exactly when  *)
(* k is in the reference set: the keys inserted with success and not       *)
(* removed since.  k ranges over the stored keys and over the keys without *)
(* white space around them.                                                *)
(***************************************************************************)
C1_ContainsIffStored ==
  Running =>
    \A k \in Keys :
      (k \in Stored \/ Trimmed(k)) => (Contains(trie, k) <=> k \in Stored)

(***************************************************************************)
(* C2.  Entries() and Values() list every stored key exactly once, in      *)
(* strictly ascending digit order, after any interleaving of successful    *)
(* and failed inserts and removals.                                        *)
(***************************************************************************)
C2_EntriesAscending ==
  Running =>
    /\ Entries(trie).err = NoErr
    /\ Values(trie).status = "ok"
    /\ Range(Values(trie).values) = Stored
    /\ \A i, j \in DOMAIN Values(trie).values :
         i < j => DigitLess(Values(trie).values[i], Values(trie).values[j])
    /\ \A i \in DOMAIN Values(trie).values :
         Entries(trie).entries[i] = NewEntry(Values(trie).values[i],
                                             model[Values(trie).values[i]])

C2_Witness ==
  /\ Running /\ Dangling
  /\ last.op = "Remove" /\ last.removed
  /\ Len(Values(trie).values) >= 3

(***************************************************************************)
(* C3.  Len() is the number of successful inserts minus the number of keys *)
(* removed with success (by Remove, RemoveEntry or Clear), and it is the   *)
(* number of elements of Entries(); failed inserts and unsuccessful        *)
(* removals leave it alone.                                                *)
(***************************************************************************)
C3_LenIsBalance ==
  Running =>
    /\ TrieLen(trie) = balance
    /\ TrieLen(trie) = Len(Entries(trie).entries)

C3_Witness ==
  /\ Running /\ Dangling
  /\ last.op = "RemoveEntry" /\ last.removed
  /\ TrieLen(trie) = 2

(***************************************************************************)
(* C4.  Round trip.  For every entry whose key is not blank and is made of *)
(* supported characters: after AddEntry(e) has succeeded, find(e.Value())  *)
(* is Matched, Contains(e.Value()) is true and Entry(e.Value()) returns    *)
(* the key and the payload of e; after Remove(k) has returned true,        *)
(* Contains(k) is false and Entry(k) fails.                                *)
(***************************************************************************)
Supported(k) == \A i \in DOMAIN k : k[i] \in DOMAIN asciiTable

Blank(k) == TrimSpace(k) = << >>

C4_RoundTrip ==
  [][ /\ \A e \in EntryInputs :
           ( /\ ~e.nil /\ ~Blank(e.value) /\ Supported(e.value)
             /\ last'.op = "AddEntry" /\ last'.status = "ok" /\ last'.err = NoErr
             /\ AddEntryCall(e) )
           => /\ find(trie', acquireSearchContext, e.value).result = Matched
              /\ Contains(trie', e.value)
              /\ Entry(trie', e.value) = [entry |-> e, err |-> NoErr]
      /\ \A k \in Keys :
           (last'.op = "Remove" /\ last'.removed /\ RemoveCall(k))
           => ~Contains(trie', k) /\ Entry(trie', k).err # NoErr ]_vars

(***************************************************************************)
(* C5.  An AddEntry or RemoveEntry call that returns an error leaves the   *)
(* whole structure as it was: the nodes reachable from the root, every     *)
(* child slot and occupancy count, the overlay list and the size, whatever *)
(* made the call fail.                                                     *)
(***************************************************************************)
C5_FailedCallChangesNothing ==
  [][ /\ \A e \in EntryInputs :
           (last'.op = "AddEntry" /\ last'.status = "ok" /\ last'.err # NoErr
              /\ AddEntryCall(e))
           => trie' = trie
      /\ \A e \in RemoveEntryInputs :
           (last'.op = "RemoveEntry" /\ last'.err # NoErr /\ RemoveEntryCall(e))
           => trie' = trie ]_vars

(***************************************************************************)
(* C6.  Prefix-free rejection: on a trie with a prefix-free digitizer,     *)
(* after a key k was inserted (say "ab"), inserting a key that strictly    *)
(* extends k (say "abc") fails with a prefix violation and the size stays  *)
(* as it was.  The extending keys are the keys of supported characters     *)
(* without white space around them.                                        *)
(***************************************************************************)
StrictPrefix(k1, k2) == Len(k1) < Len(k2) /\ SubSeq(k2, 1, Len(k1)) = k1

ExtendsStored(key) == \E k \in Stored : Trimmed(k) /\ StrictPrefix(k, key)

TrimmedStored == { TrimSpace(k) : k \in Stored }

C7_DuplicateRejected ==
  [][ \A e \in EntryInputs :
        ( /\ ~e.nil /\ e.value \in Stored
          /\ last'.op = "AddEntry"
          /\ AddEntryCall(e) )
        => /\ last'.status = "ok" /\ last'.err # NoErr
           /\ TrieLen(trie') = TrieLen(trie)
           /\ Entries(trie') = Entries(trie)
           /\ model' = model ]_vars

C7_Witness ==
  /\ Running /\ last.op = "AddEntry" /\ last.err = ErrPrefixViolation
  /\ TrieLen(trie) >= 2
  /\ \E k \in Stored : model[k] = "nil"

(***************************************************************************)
(* C8.  Idempotent removal: Remove(k) for a key k that is not stored       *)
(* returns (false, nil) and leaves the size and the contents as they were, *)
(* in every state of the trie.                                             *)
(***************************************************************************)
C8_RemoveAbsent ==
  [][ \A k \in Keys :
        (k \notin Stored /\ last'.op = "Remove" /\ RemoveCall(k))
        => /\ ~last'.removed /\ last'.err = NoErr
           /\ TrieLen(trie') = TrieLen(trie)
           /\ Entries(trie') = Entries(trie) ]_vars

(***************************************************************************)
(* C8, amended.  Remove(k) for a key k that, with the white space around   *)
(* it trimmed, is not stored removes nothing and leaves the size and the   *)
(* contents as they were; it returns (false, nil) when the trie is not     *)
(* empty and (false, CollectionEmpty) when it is.                          *)
(***************************************************************************)
C8_RemoveAbsentNonEmpty ==
  [][ \A k \in Keys :
        (TrimSpace(k) \notin Stored /\ last'.op = "Remove" /\ RemoveCall(k))
        => /\ ~last'.removed
           /\ last'.err = IF IsEmpty(trie) THEN ErrCollectionEmpty ELSE NoErr
           /\ TrieLen(trie') = TrieLen(trie)
           /\ Entries(trie') = Entries(trie) ]_vars

C8_Witness ==
  /\ Running /\ last.op = "Remove" /\ ~last.removed /\ last.err = NoErr
  /\ TrieLen(trie) >= 2

(***************************************************************************)
(* C9.  Remove and RemoveEntry return an error, and remove nothing, when   *)
(* the trie is empty or the key cannot be resolved (a nil entry, a blank   *)
(* key, a key with a character the digitizer cannot map); they return      *)
(* (false, nil) only when the key resolves and find is not Matched.        *)
(***************************************************************************)
Unresolvable(e) == e.nil \/ Blank(e.value) \/ ~Supported(e.value)

RemoveAnswer(e) ==
  /\ (IsEmpty(trie) \/ Unresolvable(e))
       => last'.err # NoErr /\ ~last'.removed /\ model' = model
  /\ (last'.err = NoErr /\ ~last'.removed)
       => /\ ~IsEmpty(trie) /\ ~Unresolvable(e)
          /\ find(trie, acquireSearchContext, e.value).result # Matched

C9_RemoveErrors ==
  [][ /\ \A k \in Keys :
           (last'.op = "Remove" /\ RemoveCall(k)) => RemoveAnswer(NewEntry(k, "nil"))
      /\ \A e \in RemoveEntryInputs :
           (last'.op = "RemoveEntry" /\ RemoveEntryCall(e)) => RemoveAnswer(e) ]_vars

(***************************************************************************)
(* C10.  After any sequence of inserts and removals that leaves the trie   *)
(* non-empty, Min() returns the smallest and Max() the largest stored key  *)
(* in digit order, the first and the last element of Entries(); on an      *)
(* empty trie both fail with CollectionEmpty.                              *)
(***************************************************************************)
Extreme(r, position) ==
  /\ r.status = "ok" /\ r.err = NoErr
  /\ r.value \in Stored
  /\ r.value = Values(trie).values[position]

C10_MinMax ==
  Running =>
    IF IsEmpty(trie)
    THEN /\ Min(trie).status = "ok" /\ Min(trie).err = ErrCollectionEmpty
         /\ Max(trie).status = "ok" /\ Max(trie).err = ErrCollectionEmpty
    ELSE /\ Extreme(Min(trie), 1)
         /\ Extreme(Max(trie), Len(Values(trie).values))
         /\ \A k \in Stored \ { Min(trie).value } : DigitLess(Min(trie).value, k)
         /\ \A k \in Stored \ { Max(trie).value } : DigitLess(k, Max(trie).value)

C10_Witness ==
  /\ Running /\ last.op = "Remove" /\ last.removed
  /\ TrieLen(trie) >= 2
  /\ Min(trie).value = << 97 >> /\ Max(trie).value = << 98, 97 >>

(***************************************************************************)
(* C11.  On a non-empty trie, for every non-blank key k of supported       *)
(* characters, stored or not, Predecessor(k) returns the greatest stored   *)
(* key strictly less than k, and fails with NotFound exactly when no       *)
(* stored key is less than k.                                              *)
(***************************************************************************)
QueryKeys == { k \in Keys : ~Blank(k) /\ Supported(k) }

Below(k) == { s \in Stored : DigitLess(s, TrimSpace(k)) }

Above(k) == { s \in Stored : DigitLess(TrimSpace(k), s) }

Greatest(S) == CHOOSE x \in S : \A y \in S \ {x} : DigitLess(y, x)

Least(S) == CHOOSE x \in S : \A y \in S \ {x} : DigitLess(x, y)

C11_Predecessor ==
  (Running /\ ~IsEmpty(trie)) =>
    \A k \in QueryKeys :
      IF Below(k) = {}
      THEN Predecessor(trie, k).status = "ok" /\ Predecessor(trie, k).err = ErrNotFound
      ELSE Predecessor(trie, k) = Answer(Greatest(Below(k)), NoErr, "ok")

(***************************************************************************)
(* C12.  On a non-empty trie, for every non-blank key k of supported       *)
(* characters, stored or not, Successor(k) returns the least stored key    *)
(* strictly greater than k, and fails with NotFound exactly when no stored *)
(* key is greater than k.                                                  *)
(***************************************************************************)
C12_Successor ==
  (Running /\ ~IsEmpty(trie)) =>
    \A k \in QueryKeys :
      IF Above(k) = {}
      THEN Successor(trie, k).status = "ok" /\ Successor(trie, k).err = ErrNotFound
      ELSE Successor(trie, k) = Answer(Least(Above(k)), NoErr, "ok")

(***************************************************************************)
(* C13.  Predecessor of the smallest stored key and Successor of the       *)
(* largest stored key fail with NotFound; for every stored key k that is   *)
(* not the smallest, Successor(Predecessor(k)) = k, and for every stored   *)
(* key k that is not the largest, Predecessor(Successor(k)) = k.           *)
(***************************************************************************)
Failed(r, err) == r.status = "ok" /\ r.err = err

C13_Neighbours ==
  (Running /\ ~IsEmpty(trie)) =>
    /\ Failed(Predecessor(trie, Least(Stored)), ErrNotFound)
    /\ Failed(Successor(trie, Greatest(Stored)), ErrNotFound)
    /\ \A k \in Stored \ { Least(Stored) } :
         /\ Failed(Predecessor(trie, k), NoErr)
         /\ Successor(trie, Predecessor(trie, k).value) = Answer(k, NoErr, "ok")
    /\ \A k \in Stored \ { Greatest(Stored) } :
         /\ Failed(Successor(trie, k), NoErr)
         /\ Predecessor(trie, Successor(trie, k).value) = Answer(k, NoErr, "ok")

(***************************************************************************)
(* C14.  On a non-empty trie with the default digitizer, for every         *)
(* non-blank prefix p of supported characters, Completions(p, sink)        *)
(* returns no error and appends to sink exactly the stored keys that start *)
(* with p, p itself included when stored, in ascending order; when no      *)
(* stored key starts with p, sink is left as it was.  p ranges over the    *)
(* prefixes without white space around them.                               *)
(***************************************************************************)
StartsWith(key, p) == Len(p) <= Len(key) /\ SubSeq(key, 1, Len(p)) = p

\* the keys of S in ascending digit order
RECURSIVE Ascending(_)
Ascending(S) == IF S = {} THEN << >> ELSE << Least(S) >> \o Ascending(S \ { Least(S) })

Sinks == { << >>, << << 120 >> >> }

C14_Completions ==
  (Running /\ ~IsEmpty(trie)) =>
    \A p \in CleanKeys : \A sink \in Sinks :
      Completions(trie, p, sink)
        = Collected(sink \o Ascending({ k \in Stored : StartsWith(k, p) }), NoErr, "ok")

(***************************************************************************)
(* C15.  On a non-empty trie, for every non-blank prefix p of supported    *)
(* characters, LongestCommonPrefix(p, sink) returns no error and appends   *)
(* to sink, in ascending order, exactly the stored keys that share the     *)
(* longest matchable prefix of p: all stored keys when not even the first  *)
(* character of p can be matched.  p ranges over the prefixes without      *)
(* white space around them.                                                *)
(***************************************************************************)
\* the length of the longest prefix of p that some stored key starts with
Matchable(p) ==
  SetMax({ n \in 0..Len(p) : \E k \in Stored : StartsWith(k, SubSeq(p, 1, n)) })

C15_LongestCommonPrefix ==
  (Running /\ ~IsEmpty(trie)) =>
    \A p \in CleanKeys : \A sink \in Sinks :
      LongestCommonPrefix(trie, p, sink)
        = Collected(sink \o Ascending({ k \in Stored :
                                          StartsWith(k, SubSeq(p, 1, Matchable(p))) }),
                    NoErr, "ok")

(***************************************************************************)
(* C16.  For every index i with 0 <= i < Len(), ValueAt(i) succeeds and    *)
(* returns the entry at position i of Entries(), the i-th smallest stored  *)
(* key with its payload; for every index outside [0, Len()) it fails with  *)
(* an error and returns no entry.                                          *)
(***************************************************************************)
Indexes == -1 .. (MaxSize + 1)

C16_ValueAt ==
  Running =>
    \A i \in Indexes :
      IF 0 <= i /\ i < TrieLen(trie)
      THEN ValueAt(trie, i) = [entry |-> Entries(trie).entries[i + 1], err |-> NoErr]
      ELSE ValueAt(trie, i).err # NoErr /\ ValueAt(trie, i).entry = NilEntry

(***************************************************************************)
(* C17.  Entry(key) and Leaves(key) fail with CollectionEmpty when the     *)
(* trie is empty, with ValueRequired when the key is blank, and with       *)
(* NotFound when the trie holds no entry for the key; otherwise Entry      *)
(* returns the stored entry for exactly that key.  The keys are the stored *)
(* keys, the blank keys, and the keys of supported characters without      *)
(* white space around them.                                                *)
(***************************************************************************)
LookupFails(k, err) == Entry(trie, k).err = err /\ Leaves(trie, k).err = err

C17_EntryAndLeaves ==
  Running =>
    \A k \in { x \in Keys : x \in Stored \/ Blank(x) \/ (Trimmed(x) /\ Supported(x)) } :
      IF IsEmpty(trie) THEN LookupFails(k, ErrCollectionEmpty)
      ELSE IF Blank(k) THEN LookupFails(k, ErrValueRequired)
      ELSE IF k \notin Stored THEN LookupFails(k, ErrNotFound)
      ELSE /\ Entry(trie, k) = [entry |-> NewEntry(k, model[k]), err |-> NoErr]
           /\ Leaves(trie, k).err = NoErr

(***************************************************************************)
(* C18.  On an empty trie Min, Max, Predecessor, Successor, Completions    *)
(* and LongestCommonPrefix fail with CollectionEmpty and leave the         *)
(* collection handed in as it was, whatever the key; on a non-empty trie   *)
(* Predecessor and Successor called with a blank key fail with             *)
(* ValueRequired.                                                          *)
(***************************************************************************)
C18_EmptyAndBlank ==
  Running =>
    IF IsEmpty(trie)
    THEN /\ Failed(Min(trie), ErrCollectionEmpty)
         /\ Failed(Max(trie), ErrCollectionEmpty)
         /\ \A k \in Keys :
              /\ Failed(Predecessor(trie, k), ErrCollectionEmpty)
              /\ Failed(Successor(trie, k), ErrCollectionEmpty)
              /\ \A sink \in Sinks :
                   /\ Completions(trie, k, sink)
                        = Collected(sink, ErrCollectionEmpty, "ok")
                   /\ LongestCommonPrefix(trie, k, sink)
                        = Collected(sink, ErrCollectionEmpty, "ok")
    ELSE \A k \in { x \in Keys : Blank(x) } :
           /\ Failed(Predecessor(trie, k), ErrValueRequired)
           /\ Failed(Successor(trie, k), ErrValueRequired)

C18_Witness ==
  /\ Running /\ IsEmpty(trie) /\ trie.root # Nil
  /\ last.op = "Remove" /\ last.removed

(***************************************************************************)
(* C19.  While the trie has not been modified since Iterate returned the   *)
(* iterator, the keys Next has returned so far are the first stored keys   *)
(* in ascending order, each once; HasNext is true exactly when a stored    *)
(* key has not been returned yet, Next then returns the next stored key,   *)
(* and a HasNext before Next changes neither the key nor the error Next    *)
(* returns nor the leaf the iterator is left on.                           *)
(***************************************************************************)
Traversing == Running /\ iter.active /\ iter.unmodified

C19_Iteration ==
  Traversing =>
    Let(Ascending(Stored), LAMBDA keys :
    Let(hasNext(trie.heap, iter.pointer), LAMBDA h :
    Let(iteratorNext(trie.heap, iter.pointer), LAMBDA n :
    Let(iteratorNext(h.heap, iter.pointer), LAMBDA m :
      /\ Len(iter.yielded) <= Len(keys)
      /\ iter.yielded = SubSeq(keys, 1, Len(iter.yielded))
      /\ h.result = (Len(iter.yielded) < Len(keys))
      /\ h.result => n.err = NoErr /\ n.value = keys[Len(iter.yielded) + 1]
      /\ m.value = n.value /\ m.err = n.err /\ m.pointer = n.pointer))))

\* three keys, one of them put back after its removal, have been returned
\* and HasNext has been asked after the last
C19_Witness ==
  /\ Traversing /\ Len(iter.yielded) = 3 /\ balance = 3
  /\ last.op = "HasNext"
  /\ trie.heap[iter.pointer].value.value = << 32, 98 >>

(***************************************************************************)
(* C20.  Next of an iterator whose HasNext is false returns                *)
(* ErrNoMoreElements: for the iterator of the trie in every state the      *)
(* caller can bring it to, and for the iterator of a list at every index   *)
(* its Next can bring it to.                                               *)
(***************************************************************************)
Lists == UNION { [1..n -> { << 97 >>, << 98 >> }] : n \in 0..MaxLen }

\* the list iterators Next can produce from listIterate(l)
RECURSIVE listIteratorsFrom(_)
listIteratorsFrom(i) ==
  {i} \cup (IF listHasNext(i) /\ listNext(i).i # i THEN listIteratorsFrom(listNext(i).i)
            ELSE {})

ListIterators == UNION { listIteratorsFrom(listIterate(l)) : l \in Lists }

ListNextAtEnd ==
  \A i \in ListIterators :
    ~listHasNext(i) => listNext(i).status = "ok" /\ listNext(i).err = ErrNoMoreElements

TrieNextAtEnd ==
  (Running /\ iter.active) =>
    Let(hasNext(trie.heap, iter.pointer), LAMBDA h :
      ~h.result => iteratorNext(h.heap, iter.pointer).err = ErrNoMoreElements)

C20_NextAtEnd == ListNextAtEnd /\ TrieNextAtEnd

(***************************************************************************)
(* C21.  After every Clear, whatever the state it is called in, Len is 0,  *)
(* IsEmpty is true, Entries is empty, Contains is false for every key,     *)
(* Entry fails with ErrCollectionEmpty for every key, and AddEntry of any  *)
(* entry returns what it returns on a trie just constructed and leaves the *)
(* same keys stored.                                                       *)
(***************************************************************************)
\* AddEntry(entry) answers on t as it does on a new trie
InsertsLikeNew(t, entry) ==
  Let(AddEntry(t, entry), LAMBDA r :
  Let(AddEntry(New, entry), LAMBDA n :
    /\ r.err = n.err /\ r.status = n.status
    /\ r.status = "ok" => /\ TrieLen(r.t) = TrieLen(n.t)
                          /\ Entries(r.t) = Entries(n.t)))

Cleared(t) ==
  /\ TrieLen(t) = 0 /\ IsEmpty(t)
  /\ Entries(t) = [entries |-> << >>, err |-> NoErr]
  /\ \A k \in Keys : ~Contains(t, k) /\ Entry(t, k).err = ErrCollectionEmpty
  /\ \A e \in EntryInputs : InsertsLikeNew(t, e)

C21_Clear == [][(last'.op = "Clear" /\ ClearCall) => Cleared(trie')]_vars

\* Clear has emptied a trie that held entries and in which a failed insert
\* had left an internal node without children
C21_Witness ==
  /\ Running /\ last.op = "Clear" /\ last.removed
  /\ Dangling /\ IsEmpty(trie) /\ balance = 0

(***************************************************************************)
(* C22.  New given a digitizer whose base is 0 or less returns an error    *)
(* and no trie.  Otherwise it returns no error and a trie with Len 0 and   *)
(* no root, and the digitizer of that trie is, from then on, the one given *)
(* or, when none was given, the ASCII digitizer, whose base is 96.         *)
(***************************************************************************)
C22_New ==
  /\ last.op = "New" =>
       IF ~option.nil /\ option.base <= 0
       THEN last.err # NoErr /\ trie = NoTrie
       ELSE /\ last.err = NoErr /\ trie # NoTrie
            /\ TrieLen(trie) = 0 /\ IsEmpty(trie) /\ trie.root = Nil
  /\ trie # NoTrie =>
       digitizer = IF ~option.nil THEN option
                   ELSE [nil |-> FALSE, base |-> 96, prefixFree |-> TRUE,
                         endOfKey |-> TRUE]

\* New has refused a digitizer of base 0
C22_Witness ==
  /\ last.op = "New" /\ last.err = ErrDigitizerBase
  /\ ~option.nil /\ option.base = 0 /\ trie = NoTrie

(***************************************************************************)
(* C23.  Every call returns: no Add, AddEntry, Remove, RemoveEntry or      *)
(* Clear made in a reachable state runs for ever, and in every state a     *)
(* call has returned in, Predecessor and Successor return for every key.   *)
(* (The loops of the other queries are bounded by the length of the key    *)
(* or of the list.)                                                        *)
(***************************************************************************)
C23_Termination ==
  /\ last.status # "hang"
  /\ Running => \A k \in Keys : /\ Predecessor(trie, k).status # "hang"
                                 /\ Successor(trie, k).status # "hang"

(***************************************************************************)
(* C24.  For the ASCII digitizer and every key of printable ASCII          *)
(* characters, DigitOf returns no error at any place, a digit in           *)
(* 1..Base-1 at a place inside the key and digit 0 at a place past its     *)
(* end; and the digits of one key (NumDigitsOf of them) are never the      *)
(* first digits of another key.  The keys are the short keys over ' ',     *)
(* 'a' and 'b', and the keys of 'a' only that are longer than the base.    *)
(***************************************************************************)
Repeated(c, n) == [i \in 1..n |-> c]

ShortPrintableKeys == UNION { [1..n -> { 32, 97, 98 }] : n \in 0..MaxLen }

PrintableKeys == ShortPrintableKeys \cup { Repeated(97, 98), Repeated(97, 99) }

IsSeqPrefix(a, b) == Len(a) <= Len(b) /\ SubSeq(b, 1, Len(a)) = a

DigitsRight(key) ==
  \A p \in 0..(Len(key) + 1) :
    Let(DigitOf(key, p), LAMBDA d :
      /\ d.err = NoErr
      /\ IF p < Len(key) THEN d.digit \in 1..(Base - 1) ELSE d.digit = 0)

C24_Digitizer ==
  digitizer = NewASCIIDigitizer =>
    \A key \in PrintableKeys :
      /\ DigitsRight(key)
      /\ \A other \in PrintableKeys \ { key } : ~IsSeqPrefix(Digits(key), Digits(other))

(***************************************************************************)
(* C25.  On a trie whose digitizer says it is not prefix-free, AddEntry of *)
(* a key whose digits are the first digits of a stored key, or whose first *)
(* digits are the digits of a stored key, finds Prefix or Extension,       *)
(* returns the prefix violation and leaves the tree, the list, the size    *)
(* and the stored keys as they were.                                       *)
(***************************************************************************)
Overlaps(key) ==
  \E k \in Stored : \/ StrictPrefix(Digits(key), Digits(k))
                     \/ StrictPrefix(Digits(k), Digits(key))

C25_NotPrefixFree ==
  [][ \A k \in DigitizerKeys :
        ( /\ ~IsPrefixFree /\ last'.op = "AddEntry" /\ Overlaps(k)
          /\ AddEntryCall(NewEntry(k, "bark")) )
        => /\ find(trie, acquireSearchContext, k).result \in { Prefix, Extension }
           /\ last'.status = "ok" /\ last'.err = ErrPrefixViolation
           /\ trie' = trie /\ model' = model ]_vars

\* "ab" is stored and AddEntry("a") has been refused, the digitizer given to
\* New being not prefix-free
C25_Witness ==
  /\ ~IsPrefixFree /\ ~option.nil
  /\ last.op = "AddEntry" /\ last.err = ErrPrefixViolation
  /\ Stored = { << 97, 98 >> } /\ ~Dangling

(***************************************************************************)
(* C26.  An Add of several values that returns an error leaves the trie    *)
(* exactly as it was before the call: the tree, the list and the size are  *)
(* unchanged and no value of the batch is stored.                          *)
(***************************************************************************)
C26_BatchAtomic ==
  [][ \A values \in Batches :
        ( /\ last'.op = "Add" /\ last'.status = "ok" /\ last'.err # NoErr
          /\ AddCall(values) )
        => trie' = trie /\ model' = model ]_vars

(***************************************************************************)
(* C27.  No ValueAt or RemoveAt faults, and in every state of the list,    *)
(* for every index below 0 or above Len - 1, ValueAt and RemoveAt return   *)
(* an error and the list is as it was; for every index from 0 to Len - 1,  *)
(* ValueAt returns the element at the index, and RemoveAt returns it and   *)
(* leaves the list without it, the elements after it one place down.       *)
(***************************************************************************)
Without(l, index) == SubSeq(l, 1, index) \o SubSeq(l, index + 2, Len(l))

ListIndexRight(l, index) ==
  Let(listValueAt(l, index), LAMBDA v :
  Let(listRemoveAt(l, index), LAMBDA r :
    /\ v.status = "ok" /\ r.status = "ok"
    /\ IF index < 0 \/ index > Len(l) - 1
       THEN v.err # NoErr /\ r.err # NoErr /\ r.list = l
       ELSE /\ v.err = NoErr /\ v.value = l[index + 1]
            /\ r.err = NoErr /\ r.value = l[index + 1] /\ r.list = Without(l, index)))

C27_ListIndex ==
  /\ listLast.status = "ok"
  /\ \A index \in ListIndexes : ListIndexRight(list, index)

(***************************************************************************)
(* C28.  In every state a call has returned in, the leaves reached from    *)
(* the root through child slots and the nodes of the overlay list between  *)
(* head and tail are the same nodes, and the list holds no node twice.     *)
(***************************************************************************)
TreeLeaves(t) ==
  IF t.root = Nil THEN {}
  ELSE { n \in Range(SubtreeOrder(t.heap, t.root)) : t.heap[n].isLeaf }

\* the nodes after n up to tail, following next; fuel bounds the walk
RECURSIVE OverlayFrom(_, _, _)
OverlayFrom(heap, n, fuel) ==
  IF n = Nil \/ fuel = 0 \/ heap[n].isTail THEN << >>
  ELSE << n >> \o OverlayFrom(heap, heap[n].next, fuel - 1)

Overlay(t) == OverlayFrom(t.heap, t.heap[t.head].next, Len(t.heap))

C28_LeavesAreListed ==
  Running =>
    /\ Range(Overlay(trie)) = TreeLeaves(trie)
    /\ Cardinality(Range(Overlay(trie))) = Len(Overlay(trie))

\* three leaves are left after a removal, beside a node a failed insert left
C28_Witness ==
  /\ Running /\ last.op = "Remove" /\ last.removed
  /\ Cardinality(TreeLeaves(trie)) = 3 /\ Dangling

(***************************************************************************)
(* C29.  After every call that returns, whether it succeeded or failed,    *)
(* every internal node reached from the root, the root excepted, has a     *)
(* child; and a Remove that removes a key takes its leaf out of the tree   *)
(* and leaves every other leaf in it.                                      *)
(***************************************************************************)
Childless(t) ==
  IF t.root = Nil THEN {}
  ELSE { n \in Range(SubtreeOrder(t.heap, t.root)) :
           ~t.heap[n].isLeaf /\ ~t.heap[n].isRoot /\ ~HasChildren(t.heap[n]) }

TreeKeys(t) == { t.heap[n].value.value : n \in TreeLeaves(t) }

C29_Pruned ==
  [][ /\ Running' => Childless(trie') = {}
      /\ \A k \in Keys :
           (last'.op = "Remove" /\ last'.removed /\ RemoveCall(k))
           => \E gone \in TreeKeys(trie) :
                /\ TrimSpace(gone) = TrimSpace(k)
                /\ TreeKeys(trie') = TreeKeys(trie) \ { gone } ]_vars

(***************************************************************************)
(* C30.  In every state from construction on, the overlay list is a        *)
(* doubly linked list from head to tail: when the trie is empty, the next  *)
(* of head is tail and the previous of tail is head, and for every node n  *)
(* from head up to the node before tail, the previous of the next of n is  *)
(* n.                                                                      *)
(***************************************************************************)
BackLinked(t, n) == t.heap[n].next # Nil /\ t.heap[t.heap[n].next].previous = n

C30_DoublyLinked ==
  Running =>
    /\ IsEmpty(trie) => /\ trie.heap[trie.head].next = trie.tail
                        /\ trie.heap[trie.tail].previous = trie.head
    /\ \A n \in { trie.head } \cup Range(Overlay(trie)) : BackLinked(trie, n)

(***************************************************************************)
(* C31.  In every state a call has returned in, every node in a child slot *)
(* of a node p refers to p as its parent, and the slots on the way from    *)
(* the root to a leaf are the digits of the key in that leaf, place by     *)
(* place, NumDigitsOf(key) of them.                                        *)
(***************************************************************************)
\* every node below n with the slots on the way to it, path leading to n
RECURSIVE PathsFrom(_, _, _)
PathsFrom(heap, n, path) ==
  { << n, path >> } \cup
  UNION { PathsFrom(heap, heap[n].children[i], Append(path, i)) :
            i \in DOMAIN heap[n].children }

TreePaths(t) == IF t.root = Nil THEN {} ELSE PathsFrom(t.heap, t.root, << >>)

C31_SlotsAreDigits ==
  Running =>
    \A np \in TreePaths(trie) :
      /\ \A i \in DOMAIN trie.heap[np[1]].children :
           trie.heap[trie.heap[np[1]].children[i]].parent = np[1]
      /\ trie.heap[np[1]].isLeaf =>
           /\ np[2] = Digits(trie.heap[np[1]].value.value)
           /\ Len(np[2]) = NumDigitsOf(trie.heap[np[1]].value.value)

\* three keys are in the tree after a removal, one of them with white space
\* before it
C31_Witness ==
  /\ Running /\ last.op = "Remove" /\ last.removed
  /\ Cardinality(TreeLeaves(trie)) = 3
  /\ \E k \in Stored : ~Trimmed(k)

(***************************************************************************)
(* C32.  While an iterator is held and AddEntry and Remove are called in   *)
(* between its calls: Next returns no key but one that is in the trie when *)
(* it is called; the keys Next has returned since Iterate are strictly     *)
(* ascending, and the key Next would return is above them all; and when    *)
(* the entry the iterator stands on has been removed, Next returns a key   *)
(* above the key of that entry and not above any key that followed the     *)
(* entry when it was removed and has been in the trie ever since: it does  *)
(* not fail while there is such a key.  A key added after the removal may  *)
(* be returned or passed over.                                             *)
(***************************************************************************)
OnRemoved ==
  /\ Running /\ iter.active
  /\ ~trie.heap[iter.pointer].isHead /\ ~trie.heap[iter.pointer].isTail
  /\ IsDeleted(trie.heap[iter.pointer])

C32_UnderChange ==
  (Running /\ iter.active) =>
    Let(iteratorNext(trie.heap, iter.pointer), LAMBDA n :
      /\ n.err = NoErr => n.value \in LiveKeys(trie.heap)
      /\ \A i, j \in 1..Len(iter.yielded) :
           i < j => DigitLess(iter.yielded[i], iter.yielded[j])
      /\ n.err = NoErr =>
           \A i \in 1..Len(iter.yielded) : DigitLess(iter.yielded[i], n.value)
      /\ OnRemoved =>
           /\ n.err = NoErr => DigitLess(trie.heap[iter.pointer].value.value, n.value)
           /\ iter.followers # {} =>
                /\ n.err = NoErr
                /\ ~DigitLess(Least(iter.followers), n.value))

\* the iterator stands on a removed entry; of the keys that followed it, one
\* has been removed too and one is left; a key above has been added since
C32_Witness ==
  /\ OnRemoved /\ Len(iter.yielded) = 1
  /\ iter.followers # {}
  /\ \E k \in LiveKeys(trie.heap) \ iter.followers : DigitLess(iter.yielded[1], k)

\* C32 as stated: from a removed entry, Next returns the least key of the
\* trie above the key of that entry, and fails only when there is none
C32_ResumesAtNextLive ==
  OnRemoved =>
    Let(iteratorNext(trie.heap, iter.pointer), LAMBDA n :
    Let({ k \in LiveKeys(trie.heap) :
            DigitLess(trie.heap[iter.pointer].value.value, k) }, LAMBDA above :
      IF above = {} THEN n.err # NoErr
      ELSE n.err = NoErr /\ n.value = Least(above)))

(***************************************************************************)
(* C33.  A leaf with a key is marked deleted (its previous link is nil)    *)
(* from the call that removes it on, and at no other time: the leaf an     *)
(* iterator stands on is marked by the step that takes its key out of the  *)
(* trie and by no other, and stays marked whatever is added or removed     *)
(* later.  No marked leaf is met on the way from head along next, nor      *)
(* below the root; when the key of a marked leaf is added again, the key   *)
(* is in another leaf, which is not marked.  remove of the iterator on     *)
(* head, on tail or on a marked leaf returns no error and leaves the trie, *)
(* its size included, as it was.                                           *)
(***************************************************************************)
KeyLeaves(t) ==
  { n \in 1..Len(t.heap) :
      t.heap[n].isLeaf /\ ~t.heap[n].isHead /\ ~t.heap[n].isTail }

Tombstoned(t) ==
  /\ \A n \in Range(Overlay(t)) \cup TreeLeaves(t) : ~IsDeleted(t.heap[n])
  /\ \A n \in KeyLeaves(t) : IsDeleted(t.heap[n]) <=> n \notin TreeLeaves(t)
  /\ \A n \in KeyLeaves(t) :
       (IsDeleted(t.heap[n]) /\ t.heap[n].value.value \in LiveKeys(t.heap))
       => \E m \in TreeLeaves(t) :
            /\ m # n /\ ~IsDeleted(t.heap[m])
            /\ t.heap[m].value.value = t.heap[n].value.value
  /\ \A n \in 1..Len(t.heap) :
       (t.heap[n].isLeaf /\ (t.heap[n].isHead \/ t.heap[n].isTail \/ IsDeleted(t.heap[n])))
       => iteratorRemove(t, n) = [t |-> t, err |-> NoErr]

C33_Tombstones ==
  [][ (Running' /\ iter.active /\ last'.op \in { "AddEntry", "Remove", "HasNext" }) =>
        /\ Tombstoned(trie')
        /\ inCollection(trie.heap, iter.pointer) =>
             /\ trie'.heap[iter'.pointer].value = trie.heap[iter.pointer].value
             /\ IsDeleted(trie'.heap[iter'.pointer])
                  <=> trie.heap[iter.pointer].value.value \notin LiveKeys(trie'.heap)
             /\ IsDeleted(trie'.heap[iter'.pointer]) => last'.op = "Remove" /\ last'.removed
        /\ OnRemoved =>
             /\ OnRemoved'
             /\ trie'.heap[iter'.pointer].value = trie.heap[iter.pointer].value ]_vars

\* the key of the removed entry the iterator stands on has been added again,
\* and another key has been removed since
C33_Witness ==
  /\ OnRemoved /\ last.op = "Remove" /\ last.removed
  /\ trie.heap[iter.pointer].value.value \in LiveKeys(trie.heap)
  /\ trie.size = 2

(***************************************************************************)
(* C34.  find, for every key and with every digitizer a trie is made with: *)
(* a key that is blank once trimmed fails with ErrNotFound; a key whose    *)
(* characters the digitizer maps is classified by the deepest node whose   *)
(* path from the root is the beginning of the digits of the trimmed key:   *)
(* Matched when that node is a leaf and the path is all the digits,        *)
(* Extension when it is a leaf and digits are left, Prefix when it is an   *)
(* internal node and the path is all the digits, Unmatched when it is an   *)
(* internal node and digits are left; the context is left on that node,    *)
(* its depth the length of the path.  On a trie of size 0 the result is    *)
(* Unmatched and the context is as it was.  find has no effect on the trie:*)
(* it returns a result, an error and the context, and nothing else.        *)
(***************************************************************************)
\* the node with the longest path among the nodes whose path begins d
Deepest(t, d) ==
  CHOOSE np \in TreePaths(t) :
    /\ IsSeqPrefix(np[2], d)
    /\ \A other \in TreePaths(t) : IsSeqPrefix(other[2], d) => Len(other[2]) <= Len(np[2])

Classified(t, d) ==
  Let(Deepest(t, d), LAMBDA np :
    [result |-> IF t.heap[np[1]].isLeaf
                THEN (IF Len(np[2]) = Len(d) THEN Matched ELSE Extension)
                ELSE (IF Len(np[2]) = Len(d) THEN Prefix ELSE Unmatched),
     err |-> NoErr,
     ctx |-> [pointer |-> np[1], branchPosition |-> Len(np[2])]])

C34_Find ==
  Running =>
    \A k \in Keys \cup DigitizerKeys :
      Let(find(trie, acquireSearchContext, k), LAMBDA r :
        /\ DOMAIN r = { "result", "err", "ctx" }
        /\ Blank(k) => r.err = ErrNotFound /\ r.result = -1
        /\ (~Blank(k) /\ trie.size = 0) =>
             r = [result |-> Unmatched, err |-> NoErr, ctx |-> acquireSearchContext]
        /\ (~Blank(k) /\ trie.size # 0 /\ Supported(k)) =>
             r = Classified(trie, Digits(TrimSpace(k))))

\* a leaf above the end of a key, a key that ends on an internal node, a
\* stored key and a key that leaves the tree are all found in one state
C34_Witness ==
  /\ Running /\ trie.size = 2
  /\ \A res \in { Matched, Extension, Prefix, Unmatched } :
       \E k \in DigitizerKeys : find(trie, acquireSearchContext, k).result = res

(***************************************************************************)
(* C35.  Every call that acquires a search context and ends, by return, by *)
(* error or by fault, has put one context into the pool, with no current   *)
(* node, no digitizer and depth 0; so whatever the pool hands out has no   *)
(* current node and depth 0, and the call works as with a new context.  In *)
(* particular AddEntry on a trie of size 0, whatever was called before,    *)
(* makes a new root: after it the tree and the list hold the new key and   *)
(* nothing else.                                                           *)
(***************************************************************************)
C35_ContextsReleased ==
  [][ /\ \A c \in searchContextPool' :
           c.pointer = Nil /\ c.digitizer = Nil /\ c.branchPosition = 0
      /\ \A c \in searchContextPool' \cup { newSearchContext } :
           Acquired(c) = [pointer |-> Nil, branchPosition |-> 0]
      /\ \A e \in PoolEntries :
           (last'.op = "AddEntry" /\ last'.status # "hang" /\ PoolAddEntryCall(e))
           => searchContextPool' # {}
      /\ \A k \in PoolKeys :
           (last'.op = "Remove" /\ ~IsEmpty(trie) /\ PoolRemoveCall(k))
           => searchContextPool' # {}
      /\ \A k \in PoolKeys :
           (last'.op = "Contains" /\ ~IsEmpty(trie) /\ ~Blank(k) /\ PoolContainsCall(k))
           => searchContextPool' # {}
      /\ (Running' /\ last'.op = "AddEntry" /\ last'.err = NoErr /\ trie.size = 0)
         => /\ Cardinality(TreeKeys(trie')) = 1
            /\ Len(Overlay(trie')) = 1
            /\ Range(Overlay(trie')) = TreeLeaves(trie')
            /\ Childless(trie') = {} ]_vars

\* an AddEntry has failed on a trie with three keys and its context is back
\* in the pool
C35_Witness ==
  /\ searchContextPool # {} /\ last.op = "AddEntry" /\ last.err # NoErr
  /\ trie.size = 3

(***************************************************************************)
(* C36.  The queries leave the trie as it is.  Contains, Entry, Leaves,    *)
(* Predecessor, Successor, Completions and LongestCommonPrefix move a      *)
(* search context and read nodes; Min, Max and Len read; none of them has  *)
(* a trie to return.  Entries, Values and ValueAt walk an iterator of      *)
(* their own from head: at every position such a walk comes to, hasNext,   *)
(* advance and Next leave every node as it is, links and occupancy         *)
(* included, and come to a position of the list again; so does the whole   *)
(* walk to tail, also while leaves that have been removed are still held   *)
(* by an iterator of the caller.                                           *)
(***************************************************************************)
Positions(t) == { t.head, t.tail } \cup Range(Overlay(t))

\* the heap after the loop of ValueAt has run to the end
RECURSIVE Walked(_, _)
Walked(heap, pointer) ==
  Let(hasNext(heap, pointer), LAMBDA h :
    IF ~h.result THEN h.heap
    ELSE Let(iteratorNext(h.heap, pointer), LAMBDA n :
           IF n.err # NoErr THEN n.heap ELSE Walked(n.heap, n.pointer)))

\* the heap after the loop of Entries has run to the end
RECURSIVE Advanced(_, _)
Advanced(heap, pointer) ==
  Let(advance(heap, pointer), LAMBDA a :
    IF ~a.ok \/ get(a.heap, a.pointer).err # NoErr THEN a.heap
    ELSE Advanced(a.heap, a.pointer))

C36_QueriesKeep ==
  Running =>
    /\ \A p \in Positions(trie) :
         /\ hasNext(trie.heap, p).heap = trie.heap
         /\ advance(trie.heap, p).heap = trie.heap
         /\ advance(trie.heap, p).pointer \in Positions(trie)
         /\ iteratorNext(trie.heap, p).heap = trie.heap
         /\ iteratorNext(trie.heap, p).pointer \in Positions(trie)
    /\ Walked(trie.heap, trie.head) = trie.heap
    /\ Advanced(trie.heap, trie.head) = trie.heap
    /\ Entries(trie).err = NoErr /\ Len(Entries(trie).entries) = trie.size

\* two keys are in the trie, and the caller holds an iterator on a removed
\* leaf whose next is a removed leaf too
C36_Witness ==
  /\ OnRemoved /\ trie.size = 2
  /\ trie.heap[iter.pointer].next # Nil
  /\ ~trie.heap[trie.heap[iter.pointer].next].isTail
  /\ IsDeleted(trie.heap[trie.heap[iter.pointer].next])

(***************************************************************************)
(* C37.  On the nodes of a caller, after every AddChild and RemoveChildAt  *)
(* that returns: numChildren of every node is the number of its slots that *)
(* hold a child, so HasChildren is true exactly when some slot does, and   *)
(* every child is in a slot within the capacity.  AddChild on a slot that  *)
(* holds a child, or with an index outside the capacity, returns an error  *)
(* and leaves every node as it was, the parent of the child included;      *)
(* AddChild that returns nil has put the child into the slot, which was    *)
(* empty, and made the receiver its parent, and nothing else.              *)
(***************************************************************************)
Counted(heap) ==
  \A p \in DOMAIN heap :
    /\ heap[p].numChildren = Cardinality(DOMAIN heap[p].children)
    /\ HasChildren(heap[p]) <=> DOMAIN heap[p].children # {}
    /\ DOMAIN heap[p].children \subseteq 0..(heap[p].cap - 1)

C37_Occupancy ==
  [][ /\ Counted(nodes')
      /\ \A p \in DOMAIN nodes : \A index \in NodeIndexes : \A child \in DOMAIN nodes \ {p} :
           (nodeLast'.op = "AddChild" /\ AddChildCall(p, index, child)) =>
             IF index \notin 0..(nodes[p].cap - 1) \/ index \in DOMAIN nodes[p].children
             THEN nodeLast'.err # NoErr /\ nodes' = nodes
             ELSE /\ nodeLast'.err = NoErr
                  /\ nodes'[p].children = (index :> child) @@ nodes[p].children
                  /\ nodes'[child].parent = p
                  /\ nodes' = [nodes EXCEPT ![p] = nodes'[p], ![child] = nodes'[child]]
                  /\ nodes'[child] = [nodes[child] EXCEPT !.parent = p]
                  /\ nodes'[p] = [nodes[p] EXCEPT !.children = nodes'[p].children,
                                                  !.numChildren = @ + 1] ]_vars

\* a node holds children in both of its slots, one of them a leaf, after an
\* AddChild on a slot that held a child has failed
C37_Witness ==
  /\ nodeLast.op = "AddChild" /\ nodeLast.err = ErrChildExists
  /\ \E p \in DOMAIN nodes :
       /\ nodes[p].numChildren = NodeCap
       /\ \E i \in DOMAIN nodes[p].children : nodes[nodes[p].children[i]].isLeaf

(***************************************************************************)
(* C38.  On every node and leaf of a caller, for every index that is not   *)
(* from 0 up to the capacity less one, the capacity itself and every index *)
(* on a leaf included: ChildAt returns an error and no node, RemoveChildAt *)
(* returns false and leaves every node as it was, and neither faults.      *)
(***************************************************************************)
OutOfRange(p) == { index \in NodeIndexes : index \notin 0..(nodes[p].cap - 1) }

C38_OutOfRange ==
  \A p \in DOMAIN nodes :
    \A index \in OutOfRange(p) :
      /\ ChildAt(nodes[p], index) =
           [node |-> Nil, err |-> ErrIndexOutOfBounds, panic |-> FALSE]
      /\ RemoveChildAtOf(nodes, p, index) =
           [heap |-> nodes, removed |-> FALSE, panic |-> FALSE]

(***************************************************************************)
(* C39.  A cursor is in the tree when it stands on a node of the tree and  *)
(* its depth is the number of slots on the way from the root to that node. *)
(* From a cursor in the tree: ascend below the root gives the cursor of    *)
(* the parent; descendToIndex on a slot that holds a child gives the       *)
(* cursor of the child, and on an empty slot, an index below 0 or an index *)
(* above the capacity gives childNotFound and the cursor as it was; with   *)
(* the capacity itself as index ChildAt faults.  The calls ascend only     *)
(* below the root: the cursor find leaves, the cursor moveToPredecessor    *)
(* leaves after it, and the cursor insert ends with are in the tree, or,   *)
(* for find on a trie of size 0 and for a blank key, the context as        *)
(* acquired.  At the root ascend is no no-op: it leaves no current node    *)
(* and depth -1.                                                           *)
(***************************************************************************)
Cursors(t) ==
  { [pointer |-> np[1], branchPosition |-> Len(np[2])] : np \in TreePaths(t) }

SlotIndexes == -1..(Base + 1)

StepsKeep(t) ==
  \A c \in Cursors(t) :
    /\ ~atRoot(t.heap, c) =>
         /\ ascend(t.heap, c) \in Cursors(t)
         /\ ascend(t.heap, c).pointer = t.heap[c.pointer].parent
    /\ \A index \in SlotIndexes \ { t.heap[c.pointer].cap } :
         descendToIndex(t.heap, c, index) =
           IF index \in DOMAIN t.heap[c.pointer].children
           THEN [index |-> index,
                 ctx |-> [pointer |-> t.heap[c.pointer].children[index],
                          branchPosition |-> c.branchPosition + 1]]
           ELSE [index |-> childNotFound, ctx |-> c]
    /\ \A index \in DOMAIN t.heap[c.pointer].children :
         descendToIndex(t.heap, c, index).ctx \in Cursors(t)
    /\ ChildAt(t.heap[c.pointer], t.heap[c.pointer].cap).panic

CallsKeep(t) ==
  /\ \A k \in Keys :
       Let(find(t, acquireSearchContext, k), LAMBDA f :
         /\ f.ctx \in Cursors(t) \cup { acquireSearchContext }
         /\ (f.ctx \in Cursors(t) /\ f.err = NoErr) =>
              Let(moveToPredecessor(t, f.ctx, TrimSpace(k), f.result), LAMBDA m :
                m.status = "ok" => m.ctx \in Cursors(t)))
  /\ \A e \in EntryInputs :
       Let(insertFrom(t, acquireSearchContext, e), LAMBDA r :
         (r.status = "ok" /\ r.err = NoErr) => r.ctx \in Cursors(r.t))

C39_CursorInTree ==
  Running =>
    /\ StepsKeep(trie)
    /\ CallsKeep(trie)
    /\ \A c \in Cursors(trie) :
         atRoot(trie.heap, c) =>
           ascend(trie.heap, c) = [pointer |-> Nil, branchPosition |-> -1]

\* three keys are stored, and for some key find ends below the root on a
\* missing slot and moveToPredecessor moves the cursor from there to a leaf
C39_Witness ==
  /\ Running /\ trie.size = 3
  /\ \E k \in Keys :
       Let(find(trie, acquireSearchContext, k), LAMBDA f :
         /\ f.err = NoErr /\ f.result = Unmatched /\ f.ctx.branchPosition >= 1
         /\ Let(moveToPredecessor(trie, f.ctx, TrimSpace(k), f.result), LAMBDA m :
              m.status = "ok" /\ m.found /\ m.ctx # f.ctx))

\* C39 as stated: at the root ascend leaves the cursor as it is, and
\* descendToIndex returns childNotFound, without a fault, for every index on
\* a slot that holds no child, the capacity and the indexes beyond included
C39_NeverLeavesTree ==
  Running =>
    \A c \in Cursors(trie) :
      /\ atRoot(trie.heap, c) => ascend(trie.heap, c) = c
      /\ \A index \in SlotIndexes \ DOMAIN trie.heap[c.pointer].children :
           /\ descendToIndex(trie.heap, c, index) = [index |-> childNotFound, ctx |-> c]
           /\ ~ChildAt(trie.heap[c.pointer], index).panic
====
